---- MODULE Spec2Model ----
(***************************************************************************)
(* Draft-generation pipeline of the MeritDraft backend.                    *)
(*                                                                         *)
(* The model follows service.DraftService (GenerateDraft, ProcessDraft,    *)
(* updateStepStatus, markJobFailed), the generation-job and petition       *)
(* repositories it writes through, and the HTTP handler that spawns one    *)
(* ProcessDraft goroutine after every successful GenerateDraft.            *)
(*                                                                         *)
(* A behaviour follows one generation job from the request that creates   *)
(* it to the end of its ProcessDraft run: job rows are addressed by id     *)
(* only, so runs of different jobs meet nowhere but in the petition row.   *)
(*                                                                         *)
(* Every repository call is one atomic SQL statement; each is a separate   *)
(* step of a run, and each may return an error (the statement then has no  *)
(* effect).  The embedding and completion services answer whatever they    *)
(* like; a whole retried call touches no shared state and is one step.     *)
(***************************************************************************)
EXTENDS Integers, Sequences, FiniteSets, TLC

(***************************************************************************)
(* Bounds of the model.                                                    *)
(***************************************************************************)
MaxCriteria == 2      \* longest selected_criteria list of a petition
MaxRequests == 2      \* concurrent requests to the generate endpoint

(***************************************************************************)
(* Program constants.                                                      *)
(***************************************************************************)
maxRetries == 3

Nil == "<nil>"        \* a NULL column / nil pointer
NoContent == << >>    \* petitions.generated_content IS NULL

JobStatusPending == "pending"
JobStatusInProgress == "in_progress"
JobStatusCompleted == "completed"
JobStatusFailed == "failed"

ErrNone == "ok"
ErrPetitionNotFound == "petition not found"
ErrMissingRequiredData == "petition missing required data for generation"
ErrJobCreationFailed == "failed to create generation job"
ErrGenerationFailed == "failed to generate content"
ErrEmbeddingFailed == "failed to generate embedding"
ErrJobNotFound == "generation job not found"
ErrTransport == "transport error"   \* whatever error http.Client.Do returns
ErrStore == "store error"   \* whatever error text the database driver returns

FinalMeritsStep == "Final Merits Determination"
AssemblingStep == "Assembling Document"

(***************************************************************************)
(* Inputs.  Criterion identifiers a client can put into selected_criteria: *)
(* nothing validates them, so a list may repeat an identifier or hold one  *)
(* outside the ten-item vocabulary ("Awards" is such an identifier).       *)
(***************************************************************************)
KnownCriteria ==
  {"awards", "membership", "media_coverage", "judging", "original_contributions",
   "authorship", "exhibitions", "critical_role", "high_salary", "commercial_success"}

CriterionIDs == {"awards", "judging", "Awards"}

PetitionIDs == {"p1"}          \* the petition in the store
UnknownPetitionID == "p0"      \* an identifier with no petition row

RECURSIVE SeqsUpTo(_, _)
SeqsUpTo(S, n) ==
  IF n = 0 THEN {<< >>}
  ELSE LET shorter == SeqsUpTo(S, n - 1)
       IN  shorter \cup {Append(s, x) : s \in {t \in shorter : Len(t) = n - 1}, x \in S}

Range(s) == {s[i] : i \in DOMAIN s}

(***************************************************************************)
(* getCriterionStepName, getCriterionTitle                                 *)
(***************************************************************************)
StepNameTable(c) ==
  CASE c = "awards" -> "Drafting Awards Criterion"
    [] c = "membership" -> "Drafting Membership Criterion"
    [] c = "media_coverage" -> "Drafting Media Coverage Criterion"
    [] c = "judging" -> "Drafting Judging Criterion"
    [] c = "original_contributions" -> "Drafting Original Contributions Criterion"
    [] c = "authorship" -> "Drafting Authorship Criterion"
    [] c = "exhibitions" -> "Drafting Exhibitions Criterion"
    [] c = "critical_role" -> "Drafting Critical Role Criterion"
    [] c = "high_salary" -> "Drafting High Salary Criterion"
    [] c = "commercial_success" -> "Drafting Commercial Success Criterion"

getCriterionStepName(c) ==
  IF c \in KnownCriteria THEN StepNameTable(c)
  ELSE "Drafting " \o c \o " Criterion"

TitleTable(c) ==
  CASE c = "awards" -> "Criterion 1: Receipt of Nationally or Internationally Recognized Prizes or Awards"
    [] c = "membership" -> "Criterion 2: Membership in Associations"
    [] c = "media_coverage" -> "Criterion 3: Published Material About the Person"
    [] c = "judging" -> "Criterion 4: Participation as a Judge"
    [] c = "original_contributions" -> "Criterion 5: Original Scientific Contributions"
    [] c = "authorship" -> "Criterion 6: Scholarly Articles"
    [] c = "exhibitions" -> "Criterion 7: Display of Work"
    [] c = "critical_role" -> "Criterion 8: Critical or Essential Capacity"
    [] c = "high_salary" -> "Criterion 9: High Salary"
    [] c = "commercial_success" -> "Criterion 10: Commercial Success"

getCriterionTitle(c) ==
  IF c \in KnownCriteria THEN TitleTable(c) ELSE "Criterion: " \o c

(***************************************************************************)
(* initializeSteps                                                         *)
(***************************************************************************)
Step(name, status) == [Name |-> name, Status |-> status]

initializeSteps(criteria) ==
  [i \in 1..Len(criteria) |-> Step(getCriterionStepName(criteria[i]), "pending")]
    \o << Step(FinalMeritsStep, "pending"), Step(AssemblingStep, "pending") >>

StepNames(steps) == [i \in DOMAIN steps |-> steps[i].Name]

(***************************************************************************)
(* generateQueryEmbedding: the retry loop around the embedding service.    *)
(* answers[k] is what the service does on attempt k (counted from 1).      *)
(***************************************************************************)
EmbedAnswers == {"ok", "transport", "decode", "http400", "http401", "http500", "http503"}

EmbedAnswerSeqs == [1..maxRetries -> EmbedAnswers]

Backoffs(attempts) == [k \in 1..(attempts - 1) |-> 2 ^ (k - 1)]   \* seconds slept

EmbedReturn(ok, attempts, msg, chain) ==
  [ok |-> ok, attempts |-> attempts, sleeps |-> Backoffs(attempts), msg |-> msg, chain |-> chain]

embeddingNoRetry_Never(answer) == FALSE

embeddingNoRetry(answer) == answer \in {"http400", "http401"}

(* One pass through the body of the retry loop, after the request was sent:  *)
(* the function returns (next = "return") or goes on to the next attempt.    *)
embeddingIteration(answer, attempt) ==
  LET last == (attempt = maxRetries - 1)
      goOn == [next |-> "continue", ok |-> FALSE, msg |-> "", chain |-> {}]
      stop(ok, msg) == [next |-> "return", ok |-> ok, msg |-> msg, chain |-> {}]
      wrapped == [next |-> "return", ok |-> FALSE,           \* %w of the client's error
                  msg |-> "failed to send request after 3 attempts: " \o ErrTransport,
                  chain |-> {ErrTransport}]
  IN  CASE answer = "transport" -> IF last THEN wrapped ELSE goOn
        [] answer = "ok" -> stop(TRUE, ErrNone)
        [] answer = "decode" ->
             IF last THEN stop(FALSE, "failed to decode response") ELSE goOn
        [] embeddingNoRetry(answer) -> stop(FALSE, "API error: " \o answer)
        [] OTHER ->
             IF last THEN stop(FALSE, "API error after 3 attempts: " \o answer) ELSE goOn

RECURSIVE embeddingLoop(_, _)
embeddingLoop(answers, attempt) ==       \* attempt counts from 0, as in the code
  IF attempt >= maxRetries
  THEN EmbedReturn(FALSE, attempt, ErrEmbeddingFailed, {ErrEmbeddingFailed})
  ELSE LET it == embeddingIteration(answers[attempt + 1], attempt)
       IN  IF it.next = "return" THEN EmbedReturn(it.ok, attempt + 1, it.msg, it.chain)
           ELSE embeddingLoop(answers, attempt + 1)

generateQueryEmbedding(answers) == embeddingLoop(answers, 0)

(***************************************************************************)
(* callGenerationAPI and the retry loop of generateProng1Section /         *)
(* generateProng2.  An answer is what one HTTP call to the completion      *)
(* service comes back with.                                                *)
(***************************************************************************)
GeneratedText == << "body" >>     \* the text a successful completion carries
GeneratedText2 == << "other body" >>

GenAnswers == {"text", "text2", "transport", "http400", "http401", "http500", "decode",
               "apiError", "blocked", "noCandidates", "noParts", "emptyText"}

GenAnswerSeqs == [1..maxRetries -> GenAnswers]

callGenerationAPI(answer) ==      \* (content, err)
  CASE answer = "text" -> [content |-> GeneratedText, err |-> ErrNone]
    [] answer = "text2" -> [content |-> GeneratedText2, err |-> ErrNone]
    [] answer = "transport" -> [content |-> << >>, err |-> "failed to send request"]
    [] answer \in {"http400", "http401", "http500"} -> [content |-> << >>, err |-> "API error: " \o answer]
    [] answer = "decode" -> [content |-> << >>, err |-> "failed to decode response"]
    [] answer = "apiError" -> [content |-> << >>, err |-> "API error: payload"]
    [] answer = "blocked" -> [content |-> << >>, err |-> "API blocked prompt"]
    [] answer = "noCandidates" -> [content |-> << >>, err |-> "API returned no candidates"]
    [] answer = "noParts" -> [content |-> << >>, err |-> "API candidate has no parts"]
    [] answer = "emptyText" -> [content |-> << >>, err |-> "API returned empty content"]

GenReturn(ok, attempts, content, msg) ==
  [ok |-> ok, attempts |-> attempts, sleeps |-> Backoffs(attempts), content |-> content, msg |-> msg]

generationIteration_FailsFast(answer, attempt, prefix) ==
  LET r == callGenerationAPI(answer)
  IN  IF r.err # ErrNone
      THEN [next |-> "return", ok |-> FALSE, content |-> << >>, msg |-> prefix \o r.err]
      ELSE [next |-> "return", ok |-> TRUE, content |-> r.content, msg |-> ErrNone]

(* One pass through the body of the retry loop; "return" with ok is the     *)
(* break followed by return content, nil.                                   *)
generationIteration(answer, attempt, prefix) ==
  LET r == callGenerationAPI(answer)
      last == (attempt = maxRetries - 1)
      goOn == [next |-> "continue", ok |-> FALSE, content |-> << >>, msg |-> ""]
      fail(msg) == [next |-> "return", ok |-> FALSE, content |-> << >>, msg |-> msg]
  IN  IF r.err # ErrNone
      THEN IF last THEN fail(prefix \o r.err) ELSE goOn
      ELSE IF r.content # << >>
      THEN [next |-> "return", ok |-> TRUE, content |-> r.content, msg |-> ErrNone]
      ELSE IF last THEN fail(ErrGenerationFailed) ELSE goOn

RECURSIVE generationLoop(_, _, _)
generationLoop(answers, attempt, prefix) ==
  IF attempt >= maxRetries
  THEN GenReturn(FALSE, attempt, << >>, ErrGenerationFailed)
  ELSE LET it == generationIteration(answers[attempt + 1], attempt, prefix)
       IN  IF it.next = "return" THEN GenReturn(it.ok, attempt + 1, it.content, it.msg)
           ELSE generationLoop(answers, attempt + 1, prefix)

Prong1Prefix == "failed to generate content after 3 attempts: "
Prong2Prefix == "failed to generate final merits after 3 attempts: "

generateProng1Section(answers) ==
  generationLoop(answers, 0, Prong1Prefix)

generateProng2Completion(answers) ==
  generationLoop(answers, 0, Prong2Prefix)

(* What the services are taken to answer during a ProcessDraft run. *)
RunEmbedAnswers == {"ok", "transport", "http400"}
RunGenAnswers == {"text", "http500", "blocked"}

RunEmbedAttempts == {generateQueryEmbedding(a).attempts : a \in [1..maxRetries -> RunEmbedAnswers]}
Prong1Results == {generateProng1Section(a) : a \in [1..maxRetries -> RunGenAnswers]}
Prong2Results == {generateProng2Completion(a) : a \in [1..maxRetries -> RunGenAnswers]}

(***************************************************************************)
(* assembleDocument.  A text is a sequence of tokens; the document is the  *)
(* sequence of everything the string builder receives.                     *)
(***************************************************************************)
RECURSIVE Join(_, _)
Join(strs, sep) ==
  IF Len(strs) = 0 THEN ""
  ELSE IF Len(strs) = 1 THEN strs[1]
  ELSE strs[1] \o sep \o Join(Tail(strs), sep)

RECURSIVE Concat(_)
Concat(seqs) == IF Len(seqs) = 0 THEN << >> ELSE Head(seqs) \o Concat(Tail(seqs))

(* strings.ToLower on the tokens that come in more than one spelling. *)
CaseTable ==
  { << "Criterion 1: Receipt of Nationally or Internationally Recognized Prizes or Awards",
       "criterion 1: receipt of nationally or internationally recognized prizes or awards" >>,
    << "CRITERION 1: RECEIPT OF NATIONALLY OR INTERNATIONALLY RECOGNIZED PRIZES OR AWARDS",
       "criterion 1: receipt of nationally or internationally recognized prizes or awards" >>,
    << "Criterion 4: Participation as a Judge", "criterion 4: participation as a judge" >>,
    << "CRITERION 4: PARTICIPATION AS A JUDGE", "criterion 4: participation as a judge" >>,
    << "Criterion: Awards", "criterion: awards" >>,
    << "CRITERION: AWARDS", "criterion: awards" >>,
    << "Final Merits Determination", "final merits determination" >>,
    << "FINAL MERITS DETERMINATION", "final merits determination" >> }

ToLower(token) ==
  IF \E pair \in CaseTable : pair[1] = token
  THEN (CHOOSE pair \in CaseTable : pair[1] = token)[2]
  ELSE token

IsSpace(token) == token \in {" ", "\n"}

RECURSIVE TrimLeft(_)
TrimLeft(text) ==
  IF Len(text) > 0 /\ IsSpace(Head(text)) THEN TrimLeft(Tail(text)) ELSE text

RECURSIVE TrimRight(_)
TrimRight(text) ==
  IF Len(text) > 0 /\ IsSpace(text[Len(text)]) THEN TrimRight(SubSeq(text, 1, Len(text) - 1)) ELSE text

TrimSpace(text) == TrimRight(TrimLeft(text))

RECURSIVE CharLen(_)
CharLen(text) == IF Len(text) = 0 THEN 0 ELSE Len(Head(text)) + CharLen(Tail(text))

IndexOf(text, token) ==              \* position of the first such token, 0 if none
  IF \E i \in DOMAIN text : text[i] = token
  THEN CHOOSE i \in DOMAIN text : text[i] = token /\ \A k \in 1..(i - 1) : text[k] # token
  ELSE 0

HasTitlePrefix_CaseSensitive(content, title) == Len(content) > 0 /\ content[1] = title

HasTitlePrefix(content, title) ==    \* strings.HasPrefix(contentLower, titleLower)
  LET trimmed == TrimSpace(content)
  IN  Len(trimmed) > 0 /\ ToLower(trimmed[1]) = ToLower(title)

SectionBlock_MeritsToo(section) ==
  IF HasTitlePrefix(section.Content, section.Title) THEN section.Content
  ELSE << section.Title >> \o section.Content

SectionBlock(section) ==
  IF section.Title = FinalMeritsStep THEN << >>
  ELSE IF HasTitlePrefix(section.Content, section.Title) THEN section.Content
  ELSE << section.Title >> \o section.Content

stripMeritsHeader(content) ==
  LET colon == IndexOf(content, ":")
      idx == CharLen(SubSeq(content, 1, colon - 1))        \* strings.Index(content, ":")
      newline == IndexOf(content, "\n")
      firstLine == SubSeq(content, 1, newline - 1)
  IN  IF ~HasTitlePrefix(content, "final merits determination") THEN content
      ELSE IF colon # 0 /\ idx > 0 /\ idx < 100
      THEN TrimSpace(SubSeq(content, colon + 1, Len(content)))
      ELSE IF newline # 0 /\ \E i \in DOMAIN firstLine :
                               ToLower(firstLine[i]) = "final merits determination"
      THEN TrimSpace(SubSeq(content, newline + 1, Len(content)))
      ELSE content

MeritsBlock(section) ==
  IF section.Title = FinalMeritsStep THEN stripMeritsHeader(section.Content) ELSE << >>

assembleDocument(petition, sections) ==
  << "PETITION FOR O-1A VISA", "I. INTRODUCTION",
     petition.ClientName \o ", in the field of " \o petition.FieldOfExpertise,
     "II. QUALIFICATIONS SUMMARY",
     "The client has satisfied the following criteria: " \o Join(petition.SelectedCriteria, ", "),
     "III. REGULATORY CRITERIA" >>
  \o Concat([i \in DOMAIN sections |-> SectionBlock(sections[i])])
  \o << "IV. FINAL MERITS DETERMINATION" >>
  \o Concat([i \in DOMAIN sections |-> MeritsBlock(sections[i])])
  \o << "V. CONCLUSION",
        "Based on the evidence presented, the client satisfies the requirements for O-1A classification." >>


VARIABLES
  petitions,   \* the petitions table: PetitionIDs -> petition row
  jobs,        \* the generation_jobs table: a sequence, job id = position
  run,         \* the ProcessDraft goroutine of each job (same positions as jobs)
  ret,         \* what the last GenerateDraft / GetJobStatus call returned
  sent,        \* requests the last step sent to the embedding / completion service
  probe        \* a single function under study: its inputs and what it returned

vars == << petitions, jobs, run, ret, sent, probe >>

NoCalls == [embed |-> 0, gen |-> 0]

JobIDs == 1..Len(jobs)

(***************************************************************************)
(* Rows of the two tables.                                                 *)
(***************************************************************************)
PriorContent == << "prior draft" >>

PetitionRows ==
  [ClientName : {"", "Jane Doe"},
   FieldOfExpertise : {"", "Machine Learning"},
   SelectedCriteria : SeqsUpTo(CriterionIDs, MaxCriteria),
   CriteriaDetails : SUBSET CriterionIDs,          \* the keys of the criteria_details map
   GeneratedContent : {NoContent, PriorContent},
   Status : {"draft"},
   RefineInstructions : {Nil}]

EmptyPetition ==
  [ClientName |-> "", FieldOfExpertise |-> "", SelectedCriteria |-> << >>,
   CriteriaDetails |-> {}, GeneratedContent |-> NoContent,
   Status |-> "draft", RefineInstructions |-> Nil]

(* GenerationJobRepository: what each statement does to the addressed row. *)
jobRepoCreate_FirstStepStarted(petitionID, steps) ==
  [PetitionID |-> petitionID, Status |-> JobStatusPending,
   CurrentStep |-> IF Len(steps) > 0 THEN steps[1].Name ELSE Nil,
   Steps |-> [i \in DOMAIN steps |-> IF i = 1 THEN Step(steps[i].Name, "in_progress") ELSE steps[i]],
   ErrorMessage |-> Nil, CompletedAt |-> Nil]

jobRepoCreate(petitionID, steps) ==
  [PetitionID |-> petitionID, Status |-> JobStatusPending, CurrentStep |-> Nil,
   Steps |-> steps, ErrorMessage |-> Nil, CompletedAt |-> Nil]

jobRepoGetByID_WithoutSteps(rows, id) == [rows[id] EXCEPT !.Steps = << >>]

jobRepoGetByID(rows, id) == rows[id]

jobRepoUpdateStatus(job, status) == [job EXCEPT !.Status = status]

jobRepoUpdateProgress_KeepsCompleted(job, currentStep, steps) ==
  [job EXCEPT !.CurrentStep = currentStep,
              !.Steps = [n \in DOMAIN steps |->
                           IF n \in DOMAIN job.Steps /\ job.Steps[n].Status = "completed"
                           THEN job.Steps[n] ELSE steps[n]]]

jobRepoUpdateProgress(job, currentStep, steps) ==
  [job EXCEPT !.CurrentStep = currentStep, !.Steps = steps]

jobRepoComplete_NoTimestamp(job) == [job EXCEPT !.Status = JobStatusCompleted]

jobRepoComplete(job) == [job EXCEPT !.Status = JobStatusCompleted, !.CompletedAt = "set"]

jobRepoFail(job, errorMessage) ==
  [job EXCEPT !.Status = JobStatusFailed, !.ErrorMessage = errorMessage]

(* PetitionRepository.UpdateGeneratedContent *)
petitionRepoUpdateGeneratedContent_MarksCompleted(row, content) ==
  [row EXCEPT !.GeneratedContent = content, !.Status = "completed"]

petitionRepoUpdateGeneratedContent(row, content) == [row EXCEPT !.GeneratedContent = content]

(***************************************************************************)
(* GenerateDraft: validation of the loaded petition (steps 1 and 2).       *)
(***************************************************************************)
validatePetition_SkipsDetails(p) ==
  IF p.ClientName = "" THEN ErrMissingRequiredData
  ELSE IF p.FieldOfExpertise = "" THEN ErrMissingRequiredData
  ELSE IF Len(p.SelectedCriteria) = 0 THEN ErrMissingRequiredData
  ELSE ErrNone

validatePetition(p) ==
  IF p.ClientName = "" THEN ErrMissingRequiredData
  ELSE IF p.FieldOfExpertise = "" THEN ErrMissingRequiredData
  ELSE IF Len(p.SelectedCriteria) = 0 THEN ErrMissingRequiredData
  ELSE IF Cardinality(p.CriteriaDetails) = 0 THEN ErrMissingRequiredData
  ELSE ErrNone

(***************************************************************************)
(* updateStepStatus: the change it makes to the job it has read.           *)
(***************************************************************************)
FirstNamed(steps, stepName) ==
  IF \E i \in DOMAIN steps : steps[i].Name = stepName
  THEN CHOOSE i \in DOMAIN steps :
         /\ steps[i].Name = stepName
         /\ \A k \in 1..(i - 1) : steps[k].Name # stepName
  ELSE 0

updateStepStatusApply_WritesOnlyMatch(steps, currentStep, stepName, status) ==
  [Steps |-> [i \in 1..Len(SelectSeq(steps, LAMBDA st : st.Name = stepName)) |->
                Step(stepName, status)],
   CurrentStep |-> IF status = "in_progress" THEN stepName
                   ELSE IF currentStep = Nil THEN "" ELSE currentStep]

updateStepStatusApply(steps, currentStep, stepName, status) ==
  LET hit == FirstNamed(steps, stepName)
      cur == IF currentStep = Nil THEN "" ELSE currentStep
  IN  [Steps |-> [i \in DOMAIN steps |->
                    IF i = hit THEN [steps[i] EXCEPT !.Status = status] ELSE steps[i]],
       CurrentStep |-> IF hit # 0 /\ status = "in_progress" THEN stepName ELSE cur]

(***************************************************************************)
(* The ProcessDraft goroutine of a job.                                    *)
(***************************************************************************)
(* Locals of the goroutine, and a record of what the run did: contentAtStart  *)
(* (the petition's content when the run was started), failedAt (the step at   *)
(* which an error came back), failDropped (jobRepo.Fail itself returned an    *)
(* error), wrote (UpdateGeneratedContent succeeded), err (ProcessDraft        *)
(* returned a non-nil error).                                                 *)
ProcessContext_OfRequest == "request"

ProcessContext == "background"       \* bgCtx := context.Background()

NewRun(content) ==
  [pc |-> "loadJob", ctx |-> ProcessContext, requestOpen |-> TRUE, petition |-> EmptyPetition, i |-> 0, sections |-> << >>,
   stepName |-> "", stepStatus |-> "", after |-> "", local |-> [Steps |-> << >>, CurrentStep |-> Nil],
   failMsg |-> "", assembled |-> NoContent, err |-> FALSE, wrote |-> FALSE,
   contentAtStart |-> content, failedAt |-> "", failDropped |-> FALSE]

(* The context ProcessDraft passes to every call is done: the call fails.  *)
CtxDone(r) == r.ctx = "request" /\ ~r.requestOpen

CallOutcomes(r) == IF CtxDone(r) THEN {FALSE} ELSE BOOLEAN

ServiceResults(r, results) == IF CtxDone(r) THEN {g \in results : ~g.ok} ELSE results

CallUpdateStep(r, stepName, status, after) ==
  [r EXCEPT !.pc = "stepRead", !.stepName = stepName, !.stepStatus = status, !.after = after]

BeginCriterionOrMerits_OnlyFirst(r, i) ==
  IF i <= 1 /\ i <= Len(r.petition.SelectedCriteria)
  THEN CallUpdateStep([r EXCEPT !.i = i],
                      getCriterionStepName(r.petition.SelectedCriteria[i]), "in_progress", "generate")
  ELSE CallUpdateStep([r EXCEPT !.i = i], FinalMeritsStep, "in_progress", "merits")

BeginCriterionOrMerits(r, i) ==      \* head of the loop over petition.SelectedCriteria
  IF i <= Len(r.petition.SelectedCriteria)
  THEN CallUpdateStep([r EXCEPT !.i = i],
                      getCriterionStepName(r.petition.SelectedCriteria[i]), "in_progress", "generate")
  ELSE CallUpdateStep([r EXCEPT !.i = i], FinalMeritsStep, "in_progress", "merits")

AfterUpdateStep(r) ==                \* where ProcessDraft goes on when updateStepStatus returned nil
  CASE r.after = "generate" -> [r EXCEPT !.pc = "generate"]
    [] r.after = "advance" -> BeginCriterionOrMerits(r, r.i + 1)
    [] r.after = "merits" -> [r EXCEPT !.pc = "merits"]
    [] r.after = "meritsDone" -> CallUpdateStep(r, AssemblingStep, "in_progress", "assemble")
    [] r.after = "assemble" ->
         CallUpdateStep([r EXCEPT !.assembled = assembleDocument(r.petition, r.sections)],
                        AssemblingStep, "completed", "store")
    [] r.after = "store" -> [r EXCEPT !.pc = "store"]

missingDetailsMessage_Unnamed(criterion) == "missing details"

missingDetailsMessage(criterion) == "missing details for criterion: " \o criterion

FailWith(r, msg) == [r EXCEPT !.pc = "markFailed", !.failMsg = msg, !.failedAt = r.pc]

Return_MissingAfterMarkFailed(r, isErr) ==
  IF r.pc = "markFailed" /\ r.failedAt = "loadPetition"
  THEN [r EXCEPT !.pc = "updateStatus"]
  ELSE [r EXCEPT !.pc = "returned", !.err = isErr,
                 !.failedAt = IF isErr /\ r.pc # "markFailed" THEN r.pc ELSE @]

Return(r, isErr) ==
  [r EXCEPT !.pc = "returned", !.err = isErr,
            !.failedAt = IF isErr /\ r.pc # "markFailed" THEN r.pc ELSE @]

OnCompleteError_MarksFailed(r) == FailWith(r, "failed to complete job: " \o ErrStore)

OnCompleteError(r) == Return(r, TRUE)      \* jobRepo.Complete failed: return the error

NoProbe == [fn |-> "none"]

Init ==
  /\ petitions \in [PetitionIDs -> PetitionRows]
  /\ jobs = << >>
  /\ run = << >>
  /\ ret = [op |-> "none", err |-> ErrNone, job |-> 0]
  /\ sent = NoCalls
  /\ probe = NoProbe

(***************************************************************************)
(* POST /api/petitions/:id/generate: DraftService.GenerateDraft, and on    *)
(* success the handler starts the job's ProcessDraft goroutine.            *)
(***************************************************************************)
GenerateDraftCalls == NoCalls     \* GenerateDraft talks to the two repositories only

GenerateDraft(petitionID, readOK, insertOK) ==
  /\ jobs = << >>
  /\ sent' = GenerateDraftCalls
  /\ UNCHANGED << petitions, probe >>
  /\   IF ~readOK \/ petitionID \notin DOMAIN petitions
       THEN /\ ret' = [op |-> "GenerateDraft", err |-> ErrPetitionNotFound, job |-> 0]
            /\ UNCHANGED << jobs, run >>
       ELSE IF validatePetition(petitions[petitionID]) # ErrNone
       THEN /\ ret' = [op |-> "GenerateDraft", err |-> validatePetition(petitions[petitionID]), job |-> 0]
            /\ UNCHANGED << jobs, run >>
       ELSE IF ~insertOK
       THEN /\ ret' = [op |-> "GenerateDraft", err |-> ErrJobCreationFailed, job |-> 0]
            /\ UNCHANGED << jobs, run >>
       ELSE /\ jobs' = Append(jobs, jobRepoCreate(petitionID,
                                      initializeSteps(petitions[petitionID].SelectedCriteria)))
            /\ run' = Append(run, NewRun(petitions[petitionID].GeneratedContent))
            /\ ret' = [op |-> "GenerateDraft", err |-> ErrNone, job |-> Len(jobs) + 1]

(***************************************************************************)
(* GET /api/jobs/:id: DraftService.GetJobStatus.  id 0 is an identifier    *)
(* with no job row.                                                        *)
(***************************************************************************)
GetJobStatus(id, readOK) ==
  /\ ret' = IF readOK /\ id \in JobIDs
            THEN [op |-> "GetJobStatus", asked |-> id, err |-> ErrNone, job |-> id,
                  row |-> jobRepoGetByID(jobs, id)]
            ELSE [op |-> "GetJobStatus", asked |-> id, err |-> ErrJobNotFound, job |-> 0]
  /\ sent' = NoCalls
  /\ UNCHANGED << petitions, jobs, run, probe >>

(***************************************************************************)
(* ProcessDraft, one repository call or one retried service call per step. *)
(***************************************************************************)
Running(j, pc) == j \in JobIDs /\ run[j].pc = pc

LoadJob(j) ==                        \* 1. jobRepo.GetByID
  /\ Running(j, "loadJob")
  /\ \E ok \in CallOutcomes(run[j]) :
       run' = [run EXCEPT ![j] = IF ok THEN [@ EXCEPT !.pc = "loadPetition"] ELSE Return(@, TRUE)]
  /\ sent' = NoCalls
  /\ UNCHANGED << petitions, jobs, ret, probe >>

LoadPetition(j) ==                   \* 1. petitionRepo.GetByID
  /\ Running(j, "loadPetition")
  /\ \E ok \in CallOutcomes(run[j]) :
       run' = [run EXCEPT ![j] =
                 IF ok /\ jobs[j].PetitionID \in DOMAIN petitions
                 THEN [@ EXCEPT !.pc = "updateStatus", !.petition = petitions[jobs[j].PetitionID]]
                 ELSE FailWith(@, "failed to load petition: " \o ErrStore)]
  /\ sent' = NoCalls
  /\ UNCHANGED << petitions, jobs, ret, probe >>

UpdateStatus(j) ==                   \* 2. jobRepo.UpdateStatus(in_progress)
  /\ Running(j, "updateStatus")
  /\ \E ok \in CallOutcomes(run[j]) :
       IF ok
       THEN /\ jobs' = [jobs EXCEPT ![j] = jobRepoUpdateStatus(@, JobStatusInProgress)]
            /\ run' = [run EXCEPT ![j] = BeginCriterionOrMerits(@, 1)]
       ELSE /\ run' = [run EXCEPT ![j] = Return(@, TRUE)]
            /\ UNCHANGED jobs
  /\ sent' = NoCalls
  /\ UNCHANGED << petitions, ret, probe >>

UpdateStepRead(j) ==                 \* updateStepStatus: jobRepo.GetByID
  /\ Running(j, "stepRead")
  /\ \E ok \in CallOutcomes(run[j]) :
       run' = [run EXCEPT ![j] =
                 IF ok
                 THEN [@ EXCEPT !.pc = "stepWrite",
                                !.local = [Steps |-> jobs[j].Steps, CurrentStep |-> jobs[j].CurrentStep]]
                 ELSE FailWith(@, "failed to update step: " \o ErrStore)]
  /\ sent' = NoCalls
  /\ UNCHANGED << petitions, jobs, ret, probe >>

UpdateStepWrite(j) ==                \* updateStepStatus: jobRepo.UpdateProgress
  /\ Running(j, "stepWrite")
  /\ LET new == updateStepStatusApply(run[j].local.Steps, run[j].local.CurrentStep,
                                      run[j].stepName, run[j].stepStatus)
     IN  \E ok \in CallOutcomes(run[j]) :
           IF ok
           THEN /\ jobs' = [jobs EXCEPT ![j] = jobRepoUpdateProgress(@, new.CurrentStep, new.Steps)]
                /\ run' = [run EXCEPT ![j] = AfterUpdateStep(@)]
           ELSE /\ run' = [run EXCEPT ![j] = FailWith(@, "failed to update step: " \o ErrStore)]
                /\ UNCHANGED jobs
  /\ sent' = NoCalls
  /\ UNCHANGED << petitions, ret, probe >>

GenerateCriterion(j) ==              \* 3. details, retrieveContext, generateProng1Section
  /\ Running(j, "generate")
  /\ LET criterion == run[j].petition.SelectedCriteria[run[j].i]
     IN  IF criterion \notin run[j].petition.CriteriaDetails
         THEN /\ run' = [run EXCEPT ![j] = FailWith(@, missingDetailsMessage(criterion))]
              /\ sent' = NoCalls
         ELSE \E embedAttempts \in RunEmbedAttempts, g \in ServiceResults(run[j], Prong1Results) :
                /\ sent' = [embed |-> embedAttempts, gen |-> g.attempts]
                /\ run' = [run EXCEPT ![j] =
                     IF ~g.ok
                     THEN FailWith(@, "failed to generate section for " \o criterion \o ": " \o g.msg)
                     ELSE CallUpdateStep(
                            [@ EXCEPT !.sections = Append(@, [Title |-> getCriterionTitle(criterion),
                                                              Content |-> g.content])],
                            getCriterionStepName(criterion), "completed", "advance")]
  /\ UNCHANGED << petitions, jobs, ret, probe >>

GenerateMerits(j) ==                 \* 4. generateProng2
  /\ Running(j, "merits")
  /\ \E embedAttempts \in RunEmbedAttempts, g \in ServiceResults(run[j], Prong2Results) :
       /\ sent' = [embed |-> embedAttempts, gen |-> g.attempts]
       /\ run' = [run EXCEPT ![j] =
            IF ~g.ok
            THEN FailWith(@, "failed to generate final merits: " \o g.msg)
            ELSE CallUpdateStep(
                   [@ EXCEPT !.sections = Append(@, [Title |-> FinalMeritsStep, Content |-> g.content])],
                   FinalMeritsStep, "completed", "meritsDone")]
  /\ UNCHANGED << petitions, jobs, ret, probe >>

StoreResult(j) ==                    \* 6. petitionRepo.UpdateGeneratedContent
  /\ Running(j, "store")
  /\ \E ok \in CallOutcomes(run[j]) :
       IF ok
       THEN /\ petitions' = [petitions EXCEPT ![jobs[j].PetitionID] =
                               petitionRepoUpdateGeneratedContent(@, run[j].assembled)]
            /\ run' = [run EXCEPT ![j] = [@ EXCEPT !.pc = "complete", !.wrote = TRUE]]
       ELSE /\ run' = [run EXCEPT ![j] = FailWith(@, "failed to store generated content: " \o ErrStore)]
            /\ UNCHANGED petitions
  /\ sent' = NoCalls
  /\ UNCHANGED << jobs, ret, probe >>

Complete(j) ==                       \* 7. jobRepo.Complete
  /\ Running(j, "complete")
  /\ \E ok \in CallOutcomes(run[j]) :
       IF ok
       THEN /\ jobs' = [jobs EXCEPT ![j] = jobRepoComplete(@)]
            /\ run' = [run EXCEPT ![j] = Return(@, FALSE)]
       ELSE /\ run' = [run EXCEPT ![j] = OnCompleteError(@)]
            /\ UNCHANGED jobs
  /\ sent' = NoCalls
  /\ UNCHANGED << petitions, ret, probe >>

MarkJobFailed(j) ==                  \* markJobFailed: jobRepo.Fail, its error dropped
  /\ Running(j, "markFailed")
  /\ \E ok \in CallOutcomes(run[j]) :
       IF ok
       THEN /\ jobs' = [jobs EXCEPT ![j] = jobRepoFail(@, run[j].failMsg)]
            /\ run' = [run EXCEPT ![j] = Return(@, TRUE)]
       ELSE /\ UNCHANGED jobs
            /\ run' = [run EXCEPT ![j] = Return([@ EXCEPT !.failDropped = TRUE], TRUE)]
  /\ sent' = NoCalls
  /\ UNCHANGED << petitions, ret, probe >>

(* The generate request ends or is cancelled while the run is under way:    *)
(* its context is done from then on.                                       *)
CancelRequest(j) ==
  /\ j \in JobIDs
  /\ run[j].requestOpen /\ run[j].pc # "returned"
  /\ run' = [run EXCEPT ![j].requestOpen = FALSE]
  /\ UNCHANGED << petitions, jobs, ret, sent, probe >>

ProcessDraft(j) ==
  \/ LoadJob(j)
  \/ LoadPetition(j)
  \/ UpdateStatus(j)
  \/ UpdateStepRead(j)
  \/ UpdateStepWrite(j)
  \/ GenerateCriterion(j)
  \/ GenerateMerits(j)
  \/ StoreResult(j)
  \/ Complete(j)
  \/ MarkJobFailed(j)

Next ==
  \/ \E p \in PetitionIDs \cup {UnknownPetitionID}, readOK \in BOOLEAN, insertOK \in BOOLEAN :
       GenerateDraft(p, readOK, insertOK)
  \/ \E j \in JobIDs : ProcessDraft(j)
  \/ \E j \in JobIDs : CancelRequest(j)
  \/ \E id \in {0} \cup JobIDs, readOK \in BOOLEAN : GetJobStatus(id, readOK)

Spec == Init /\ [][Next]_vars

(***************************************************************************)
(* generateQueryEmbedding on its own: the embedding service's answers are  *)
(* drawn in the initial state, and one step is one attempt.                *)
(***************************************************************************)
nextBackoff_Constant(backoff) == backoff

nextBackoff(backoff) == backoff * 2      \* backoff *= 2

InitEmbedding ==
  /\ petitions = [p \in PetitionIDs |-> EmptyPetition]
  /\ jobs = << >>
  /\ run = << >>
  /\ ret = [op |-> "none", err |-> ErrNone, job |-> 0]
  /\ sent = NoCalls
  /\ probe \in [fn : {"generateQueryEmbedding"}, answers : EmbedAnswerSeqs,
                pc : {"loop"}, attempt : {0}, backoff : {1}, sleeps : {<< >>},
                requests : {0}, ok : {FALSE}, msg : {""}, chain : {{}}]

EmbeddingAttempt ==                  \* one iteration of the for loop
  /\ probe.fn = "generateQueryEmbedding"
  /\ probe.pc = "loop"
  /\ probe.attempt < maxRetries
  /\ LET it == embeddingIteration(probe.answers[probe.attempt + 1], probe.attempt)
         slept == IF probe.attempt > 0 THEN Append(probe.sleeps, probe.backoff) ELSE probe.sleeps
         backoff == IF probe.attempt > 0 THEN nextBackoff(probe.backoff) ELSE probe.backoff
     IN  /\ probe' = [probe EXCEPT !.sleeps = slept, !.backoff = backoff,
                                   !.requests = @ + 1, !.attempt = @ + 1,
                                   !.pc = IF it.next = "return" THEN "returned" ELSE "loop",
                                   !.ok = it.ok, !.msg = it.msg, !.chain = it.chain]
         /\ sent' = [embed |-> 1, gen |-> 0]
  /\ UNCHANGED << petitions, jobs, run, ret >>

(* The statement after the loop (return nil, ErrEmbeddingFailed) would run   *)
(* from pc = "loop" with attempt = maxRetries; LoopAlwaysReturns says no      *)
(* call gets there, the last iteration returning on every answer.             *)
LoopAlwaysReturns ==
  probe.fn = "generateQueryEmbedding" /\ probe.pc = "loop" => probe.attempt < maxRetries

NextEmbedding == EmbeddingAttempt

SpecEmbedding == InitEmbedding /\ [][NextEmbedding]_vars


(***************************************************************************)
(* The retry loop of generateProng1Section / generateProng2 on its own:    *)
(* the completion service's answers are drawn in the initial state, and    *)
(* one step is one attempt.                                                *)
(***************************************************************************)
InitGeneration ==
  /\ petitions = [p \in PetitionIDs |-> EmptyPetition]
  /\ jobs = << >>
  /\ run = << >>
  /\ ret = [op |-> "none", err |-> ErrNone, job |-> 0]
  /\ sent = NoCalls
  /\ probe \in [fn : {"generateProng1Section", "generateProng2"}, answers : GenAnswerSeqs,
                pc : {"loop"}, attempt : {0}, backoff : {1}, sleeps : {<< >>},
                requests : {0}, ok : {FALSE}, content : {<< >>}, msg : {""}]

GenerationAttempt ==                 \* one iteration of the for loop
  /\ probe.fn \in {"generateProng1Section", "generateProng2"}
  /\ probe.pc = "loop"
  /\ probe.attempt < maxRetries
  /\ LET prefix == IF probe.fn = "generateProng1Section" THEN Prong1Prefix ELSE Prong2Prefix
         it == generationIteration(probe.answers[probe.attempt + 1], probe.attempt, prefix)
         slept == IF probe.attempt > 0 THEN Append(probe.sleeps, probe.backoff) ELSE probe.sleeps
         backoff == IF probe.attempt > 0 THEN nextBackoff(probe.backoff) ELSE probe.backoff
     IN  /\ probe' = [probe EXCEPT !.sleeps = slept, !.backoff = backoff,
                                   !.requests = @ + 1, !.attempt = @ + 1,
                                   !.pc = IF it.next = "return" THEN "returned" ELSE "loop",
                                   !.ok = it.ok, !.content = it.content, !.msg = it.msg]
         /\ sent' = [embed |-> 0, gen |-> 1]
  /\ UNCHANGED << petitions, jobs, run, ret >>

NextGeneration == GenerationAttempt

SpecGeneration == InitGeneration /\ [][NextGeneration]_vars


(***************************************************************************)
(* retrieveContext on its own: the embedding call, then one similarity     *)
(* search per source type.  The initial state draws what the embedding     *)
(* service answers and what each SearchByCriterion call comes back with.   *)
(***************************************************************************)
SourceTypes == << "regulation", "appeal_decision", "precedent_case" >>

SearchOutcomes ==                    \* (chunks, err) of LegalChunkRepository.SearchByCriterion
  {[err |-> TRUE, chunks |-> << >>]}
    \cup {[err |-> FALSE, chunks |-> c] : c \in {<< >>, << "chunk A" >>, << "chunk A", "chunk B" >>}}

EmptyContext == [regulation |-> << >>, appeal_decision |-> << >>, precedent_case |-> << >>]

searchInto_DropsAllOnError(context, sourceType, outcome) ==
  IF outcome.err THEN EmptyContext ELSE [context EXCEPT ![sourceType] = outcome.chunks]

searchInto(context, sourceType, outcome) ==      \* if err != nil { log } else { context.X = chunks }
  IF outcome.err THEN context ELSE [context EXCEPT ![sourceType] = outcome.chunks]

retrieveContext(answers, search) ==
  LET e == generateQueryEmbedding(answers)
  IN  IF ~e.ok
      THEN [ok |-> FALSE, msg |-> "failed to generate embedding: " \o e.msg, chain |-> e.chain,
            context |-> EmptyContext]
      ELSE [ok |-> TRUE, msg |-> ErrNone, chain |-> {},
            context |-> searchInto(searchInto(searchInto(EmptyContext,
                          SourceTypes[1], search[SourceTypes[1]]),
                          SourceTypes[2], search[SourceTypes[2]]),
                          SourceTypes[3], search[SourceTypes[3]])]

InitRetrieval ==
  /\ petitions = [p \in PetitionIDs |-> EmptyPetition]
  /\ jobs = << >>
  /\ run = << >>
  /\ ret = [op |-> "none", err |-> ErrNone, job |-> 0]
  /\ sent = NoCalls
  /\ probe \in [fn : {"retrieveContext"}, answers : [1..maxRetries -> RunEmbedAnswers],
                search : [Range(SourceTypes) -> SearchOutcomes],
                pc : {"embed"}, searched : {0}, ok : {FALSE}, msg : {""}, chain : {{}},
                context : {EmptyContext}]

RetrievalEmbed ==                    \* generateQueryEmbedding and the check of its error
  /\ probe.fn = "retrieveContext" /\ probe.pc = "embed"
  /\ LET e == generateQueryEmbedding(probe.answers)
     IN  /\ probe' = IF e.ok
                     THEN [probe EXCEPT !.pc = "search"]
                     ELSE [probe EXCEPT !.pc = "returned", !.ok = FALSE, !.chain = e.chain,
                                        !.msg = "failed to generate embedding: " \o e.msg]
         /\ sent' = [embed |-> e.attempts, gen |-> 0]
  /\ UNCHANGED << petitions, jobs, run, ret >>

RetrievalSearch ==                   \* the next SearchByCriterion call; after the third, return
  /\ probe.fn = "retrieveContext" /\ probe.pc = "search"
  /\ LET sourceType == SourceTypes[probe.searched + 1]
         last == (probe.searched + 1 = Len(SourceTypes))
     IN  probe' = [probe EXCEPT !.context = searchInto(@, sourceType, probe.search[sourceType]),
                                !.searched = @ + 1,
                                !.pc = IF last THEN "returned" ELSE "search",
                                !.ok = last, !.msg = IF last THEN ErrNone ELSE @]
  /\ sent' = NoCalls
  /\ UNCHANGED << petitions, jobs, run, ret >>

NextRetrieval == RetrievalEmbed \/ RetrievalSearch

SpecRetrieval == InitRetrieval /\ [][NextRetrieval]_vars


(***************************************************************************)
(* POST /api/petitions/:id/generate under concurrent requests: each        *)
(* request runs PetitionHandler.GenerateDraft; probe.invoked lists the job *)
(* ids ProcessDraft was started for, in the order of the go statements.    *)
(* The handler sees of the petition only what GenerateDraft validates.     *)
(***************************************************************************)
RequestIDs == 1..MaxRequests

EndpointPetitionRows ==
  {p \in PetitionRows : /\ Len(p.SelectedCriteria) <= 1
                        /\ p.FieldOfExpertise # ""
                        /\ p.GeneratedContent = NoContent}

NewRequest(petitionID) == [pc |-> "create", petition |-> petitionID, err |-> ErrNone, job |-> 0]

InitEndpoint ==
  /\ petitions \in [PetitionIDs -> EndpointPetitionRows]
  /\ jobs = << >>
  /\ run = << >>
  /\ ret = [op |-> "none", err |-> ErrNone, job |-> 0]
  /\ sent = NoCalls
  /\ probe \in [fn : {"GenerateDraftHandler"},
                reqs : [RequestIDs -> {NewRequest(p) : p \in PetitionIDs \cup {UnknownPetitionID}}],
                invoked : {<< >>}]

handlerAfterCreate_AlwaysSpawns(err) == "spawn"

handlerAfterCreate(err) == IF err # ErrNone THEN "respond" ELSE "spawn"   \* if err != nil { 500; return }

HandlerCreate(r, readOK, insertOK) ==             \* h.draftService.GenerateDraft
  /\ probe.fn = "GenerateDraftHandler" /\ probe.reqs[r].pc = "create"
  /\ LET petitionID == probe.reqs[r].petition
         err == IF ~readOK \/ petitionID \notin DOMAIN petitions THEN ErrPetitionNotFound
                ELSE IF validatePetition(petitions[petitionID]) # ErrNone
                THEN validatePetition(petitions[petitionID])
                ELSE IF ~insertOK THEN ErrJobCreationFailed
                ELSE ErrNone
     IN  /\ jobs' = IF err = ErrNone
                    THEN Append(jobs, jobRepoCreate(petitionID,
                                        initializeSteps(petitions[petitionID].SelectedCriteria)))
                    ELSE jobs
         /\ probe' = [probe EXCEPT !.reqs[r] =
                        [@ EXCEPT !.pc = handlerAfterCreate(err), !.err = err,
                                  !.job = IF err = ErrNone THEN Len(jobs) + 1 ELSE 0]]
  /\ sent' = GenerateDraftCalls
  /\ UNCHANGED << petitions, run, ret >>

HandlerSpawn(r) ==                                \* go func() { ProcessDraft(bgCtx, result.JobID) }()
  /\ probe.fn = "GenerateDraftHandler" /\ probe.reqs[r].pc = "spawn"
  /\ probe' = [probe EXCEPT !.reqs[r].pc = "respond",
                            !.invoked = Append(@, probe.reqs[r].job)]
  /\ sent' = NoCalls
  /\ UNCHANGED << petitions, jobs, run, ret >>

HandlerRespond(r) ==                              \* c.JSON(202 | 500)
  /\ probe.fn = "GenerateDraftHandler" /\ probe.reqs[r].pc = "respond"
  /\ probe' = [probe EXCEPT !.reqs[r].pc = "done"]
  /\ ret' = [op |-> "GenerateDraft", err |-> probe.reqs[r].err, job |-> probe.reqs[r].job]
  /\ sent' = NoCalls
  /\ UNCHANGED << petitions, jobs, run >>

NextEndpoint ==
  \E r \in RequestIDs :
    \/ \E readOK \in BOOLEAN, insertOK \in BOOLEAN : HandlerCreate(r, readOK, insertOK)
    \/ HandlerSpawn(r)
    \/ HandlerRespond(r)

SpecEndpoint == InitEndpoint /\ [][NextEndpoint]_vars


(***************************************************************************)
(* assembleDocument on its own, called as ProcessDraft calls it: one       *)
(* section per selected criterion, titled by getCriterionTitle, then the   *)
(* merits section.  The initial state draws the generated texts.           *)
(***************************************************************************)
UpperTitle(title) ==
  CASE title = "Criterion 1: Receipt of Nationally or Internationally Recognized Prizes or Awards"
         -> "CRITERION 1: RECEIPT OF NATIONALLY OR INTERNATIONALLY RECOGNIZED PRIZES OR AWARDS"
    [] title = "Criterion 4: Participation as a Judge" -> "CRITERION 4: PARTICIPATION AS A JUDGE"
    [] title = "Criterion: Awards" -> "CRITERION: AWARDS"

CriterionTexts(title) ==             \* texts the completion service may return for a criterion
  { << "body" >>, << title, "\n", "body" >>, << " ", UpperTitle(title), "\n", "body" >> }

MeritsTexts ==
  { << "merits body" >>,
    << "Final Merits Determination", ":", " ", "merits body" >>,
    << "FINAL MERITS DETERMINATION", "\n", "merits body" >>,
    << "Final Merits Determination", "\n", "Note", ":", "merits body" >> }

SectionsFor(criteria, texts, merits) ==
  [k \in 1..Len(criteria) |-> [Title |-> getCriterionTitle(criteria[k]), Content |-> texts[k]]]
    \o << [Title |-> FinalMeritsStep, Content |-> merits] >>

AssembleInputs ==
  UNION { { [fn |-> "assembleDocument", pc |-> "call", criteria |-> c, texts |-> t, merits |-> m,
             document |-> << >>] :
            t \in { f \in [1..Len(c) -> UNION {CriterionTexts(getCriterionTitle(x)) : x \in CriterionIDs}] :
                      \A k \in 1..Len(c) : f[k] \in CriterionTexts(getCriterionTitle(c[k])) },
            m \in MeritsTexts } :
          c \in SeqsUpTo(CriterionIDs, MaxCriteria) \ {<< >>} }

AssemblePetition(criteria) ==
  [EmptyPetition EXCEPT !.ClientName = "Jane Doe", !.FieldOfExpertise = "Machine Learning",
                        !.SelectedCriteria = criteria]

InitAssemble ==
  /\ petitions = [p \in PetitionIDs |-> EmptyPetition]
  /\ jobs = << >>
  /\ run = << >>
  /\ ret = [op |-> "none", err |-> ErrNone, job |-> 0]
  /\ sent = NoCalls
  /\ probe \in AssembleInputs

Assemble ==
  /\ probe.fn = "assembleDocument" /\ probe.pc = "call"
  /\ probe' = [probe EXCEPT !.pc = "returned",
                 !.document = assembleDocument(AssemblePetition(probe.criteria),
                                SectionsFor(probe.criteria, probe.texts, probe.merits))]
  /\ UNCHANGED << petitions, jobs, run, ret, sent >>

NextAssemble == Assemble

SpecAssemble == InitAssemble /\ [][NextAssemble]_vars


(***************************************************************************)
(*                         Properties of the pipeline                      *)
(***************************************************************************)
Content(j) == petitions[jobs[j].PetitionID].GeneratedContent
Selected(j) == petitions[jobs[j].PetitionID].SelectedCriteria
StatusChange(j) == << jobs[j].Status, jobs'[j].Status >>

C2_FailureMarksJobFailed ==
  \A j \in JobIDs :
    run[j].pc = "returned" /\ run[j].err /\ run[j].failedAt # "loadJob" /\ ~run[j].failDropped =>
      jobs[j].Status = JobStatusFailed /\ jobs[j].ErrorMessage \notin {Nil, ""}

(* C3: a failed job's petition still has the content it had when the run    *)
(* started, and content is written only by a run that holds a section for   *)
(* every criterion plus the merits section and has assembled them.          *)
C3_NoPartialDocument ==
  \A j \in JobIDs :
    /\ jobs[j].Status = JobStatusFailed => Content(j) = run[j].contentAtStart /\ ~run[j].wrote
    /\ (run[j].wrote \/ Content(j) # run[j].contentAtStart) =>
         /\ Len(run[j].sections) = Len(run[j].petition.SelectedCriteria) + 1
         /\ run[j].sections[Len(run[j].sections)].Title = FinalMeritsStep
         /\ Content(j) = assembleDocument(run[j].petition, run[j].sections)

C3_Witness ==
  \E j \in JobIDs :
    /\ jobs[j].Status = JobStatusFailed /\ run[j].pc = "returned"
    /\ Len(run[j].sections) >= 1
    /\ Content(j) = PriorContent

(* C4 as stated: a completed job has every step completed and its petition  *)
(* holds the document the run assembled, written before completion.         *)
C4_CompletedJobIsWhole ==
  \A j \in JobIDs :
    jobs[j].Status = JobStatusCompleted =>
      /\ \A i \in DOMAIN jobs[j].Steps : jobs[j].Steps[i].Status = "completed"
      /\ run[j].wrote
      /\ Content(j) = run[j].assembled

(* C5: GenerateDraft on a petition lacking client name, field, criteria or  *)
(* criteria details returns the missing-data error, on an unknown petition  *)
(* petition-not-found, and in both cases adds no job.                       *)
LacksRequiredData(p) ==
  \/ p.ClientName = ""
  \/ p.FieldOfExpertise = ""
  \/ p.SelectedCriteria = << >>
  \/ p.CriteriaDetails = {}

C5_CreateRejectsIncomplete ==
  [][\A p \in PetitionIDs \cup {UnknownPetitionID}, insertOK \in BOOLEAN :
       GenerateDraft(p, TRUE, insertOK) =>
         /\ p \notin DOMAIN petitions => ret'.err = ErrPetitionNotFound /\ jobs' = jobs
         /\ p \in DOMAIN petitions /\ LacksRequiredData(petitions[p]) =>
              ret'.err = ErrMissingRequiredData /\ jobs' = jobs]_vars

C5_Witness ==
  /\ ret.op = "GenerateDraft" /\ ret.err = ErrMissingRequiredData /\ jobs = << >>
  /\ \E p \in PetitionIDs :
       /\ petitions[p].ClientName # "" /\ petitions[p].FieldOfExpertise # ""
       /\ petitions[p].SelectedCriteria # << >> /\ petitions[p].CriteriaDetails = {}

(* C6 as stated: a job has n+2 steps, the i-th named after the i-th         *)
(* selected criterion, then the two fixed steps, and no two steps share a   *)
(* name.                                                                    *)
C6_StepListShape ==
  \A j \in JobIDs :
    LET n == Len(Selected(j))
        steps == jobs[j].Steps
    IN  /\ Len(steps) = n + 2
        /\ \A i \in 1..n : steps[i].Name = getCriterionStepName(Selected(j)[i])
        /\ steps[n + 1].Name = FinalMeritsStep
        /\ steps[n + 2].Name = AssemblingStep
        /\ \A a, b \in DOMAIN steps : a # b => steps[a].Name # steps[b].Name

(* C7 as stated: each step goes pending -> in_progress -> completed, a step *)
(* enters in_progress only when all earlier steps are completed, and at     *)
(* most one step is in_progress.                                            *)
C7_StepsInListOrder ==
  [][\A j \in DOMAIN jobs :
       /\ \A i \in DOMAIN jobs[j].Steps :
            jobs'[j].Steps[i].Status # jobs[j].Steps[i].Status =>
              /\ << jobs[j].Steps[i].Status, jobs'[j].Steps[i].Status >>
                   \in {<< "pending", "in_progress" >>, << "in_progress", "completed" >>}
              /\ jobs'[j].Steps[i].Status = "in_progress" =>
                   \A k \in 1..(i - 1) : jobs'[j].Steps[k].Status = "completed"
       /\ Cardinality({i \in DOMAIN jobs'[j].Steps : jobs'[j].Steps[i].Status = "in_progress"}) <= 1]_vars

(* C8: no step after creation changes the number, names or order of a job's *)
(* steps; a step changes the status of at most one step.                    *)
C8_StepListFixed ==
  [][\A j \in DOMAIN jobs :
       /\ j \in DOMAIN jobs'
       /\ StepNames(jobs'[j].Steps) = StepNames(jobs[j].Steps)
       /\ Cardinality({i \in DOMAIN jobs[j].Steps :
                         jobs'[j].Steps[i].Status # jobs[j].Steps[i].Status}) <= 1
       /\ jobs'[j].PetitionID = jobs[j].PetitionID]_vars

C8_Witness ==
  \E j \in JobIDs :
    /\ \E i \in DOMAIN jobs[j].Steps : jobs[j].Steps[i].Status = "completed"
    /\ \E i \in DOMAIN jobs[j].Steps : jobs[j].Steps[i].Status = "pending"
    /\ jobs[j].CurrentStep = FinalMeritsStep

(* C9: the step in which GenerateDraft returns success adds exactly one job *)
(* row, pending, all steps pending, no current step, no error message; it   *)
(* sends nothing to the embedding or completion service and leaves the      *)
(* petitions as they were.                                                  *)
C9_CreateEffect ==
  [][ret' # ret /\ ret'.op = "GenerateDraft" /\ ret'.err = ErrNone =>
       /\ Len(jobs') = Len(jobs) + 1
       /\ SubSeq(jobs', 1, Len(jobs)) = jobs
       /\ ret'.job = Len(jobs')
       /\ jobs'[Len(jobs')].Status = JobStatusPending
       /\ \A i \in DOMAIN jobs'[Len(jobs')].Steps : jobs'[Len(jobs')].Steps[i].Status = "pending"
       /\ jobs'[Len(jobs')].CurrentStep = Nil
       /\ jobs'[Len(jobs')].ErrorMessage = Nil
       /\ sent' = NoCalls
       /\ petitions' = petitions]_vars

C9_Witness ==
  /\ ret.op = "GenerateDraft" /\ ret.err = ErrNone
  /\ Len(jobs) = 1 /\ run[1].pc = "loadJob"
  /\ jobs[1].Status = JobStatusPending

(* C10: with every attempt failing by transport error or 5xx the call makes *)
(* exactly maxRetries requests and fails; after an attempt answered 400,    *)
(* 401 or success no further request is made.                               *)
TransientAnswers == {"transport", "http500", "http503"}

C10_EmbeddingAttempts ==
  probe.fn = "generateQueryEmbedding" =>
    /\ \A k \in 1..probe.requests :
         probe.answers[k] \in {"http400", "http401", "ok"} =>
           probe.requests = k /\ probe.pc = "returned"
    /\ probe.pc = "returned" =>
         /\ (\A k \in 1..maxRetries : probe.answers[k] \in TransientAnswers) =>
              probe.requests = maxRetries /\ ~probe.ok
         /\ probe.answers[1] = "http400" => probe.requests = 1 /\ ~probe.ok
         /\ probe.ok => probe.answers[probe.requests] = "ok"

C10_Witness ==
  /\ probe.fn = "generateQueryEmbedding" /\ probe.pc = "returned"
  /\ \A k \in 1..maxRetries : probe.answers[k] \in TransientAnswers
  /\ probe.requests = 3

(* C11 as stated: when all maxRetries attempts failed by transport error or *)
(* 5xx, the error generateQueryEmbedding returns is ErrEmbeddingFailed or   *)
(* has it in its wrap chain.                                                *)
C11_ExhaustionIsTyped ==
  /\ probe.fn = "generateQueryEmbedding" /\ probe.pc = "returned"
  /\ \A k \in 1..maxRetries : probe.answers[k] \in TransientAnswers
  => probe.msg = ErrEmbeddingFailed \/ ErrEmbeddingFailed \in probe.chain

(* C12 as stated: after a completion attempt answered with 400/401, a       *)
(* safety block, an API error payload, no candidates or a candidate without *)
(* parts, the section generator makes no further attempt.                   *)
TerminalGenAnswers == {"http400", "http401", "blocked", "apiError", "noCandidates", "noParts"}

C12_TerminalErrorsNotRetried ==
  probe.fn \in {"generateProng1Section", "generateProng2"} =>
    \A k \in 1..probe.requests :
      probe.answers[k] \in TerminalGenAnswers => probe.requests = k /\ probe.pc = "returned"

(* C13: a section generator makes at most maxRetries completion calls,      *)
(* returns the text of the first attempt that yields content, goes on after *)
(* an empty 200 response, and fails only after the third failed attempt.    *)
TextAnswers == {"text", "text2"}

C13_FirstTextWithinThreeCalls ==
  probe.fn \in {"generateProng1Section", "generateProng2"} =>
    /\ probe.requests <= maxRetries
    /\ \A k \in 1..(probe.requests - 1) : probe.answers[k] \notin TextAnswers
    /\ probe.pc = "returned" =>
         /\ probe.ok =>
              /\ probe.answers[probe.requests] \in TextAnswers
              /\ probe.content = callGenerationAPI(probe.answers[probe.requests]).content
              /\ probe.content # << >>
         /\ ~probe.ok =>
              /\ probe.requests = maxRetries
              /\ \A k \in 1..maxRetries : probe.answers[k] \notin TextAnswers
              /\ probe.msg # ""
    /\ probe.pc = "loop" /\ probe.requests < maxRetries => ENABLED GenerationAttempt

C13_Witness ==
  /\ probe.fn = "generateProng1Section" /\ probe.pc = "returned" /\ probe.ok
  /\ probe.answers[1] = "emptyText" /\ probe.answers[2] = "text2" /\ probe.answers[3] = "text"
  /\ probe.requests = 2 /\ probe.content = GeneratedText2

(* C14 as stated: when generating the section of the k-th selected          *)
(* criterion fails (and the jobRepo.Fail statement goes through), the job   *)
(* is failed with a message naming that criterion, steps 1..k-1 are         *)
(* completed and every step after the k-th is pending.                      *)
NamesCriterion(msg, c) ==
  \/ msg = "missing details for criterion: " \o c
  \/ \E g \in Prong1Results : msg = "failed to generate section for " \o c \o ": " \o g.msg

C14_FailureAtKthCriterion ==
  \A j \in JobIDs :
    run[j].pc = "returned" /\ run[j].failedAt = "generate" /\ ~run[j].failDropped =>
      LET k == run[j].i
      IN  /\ jobs[j].Status = JobStatusFailed
          /\ NamesCriterion(jobs[j].ErrorMessage, run[j].petition.SelectedCriteria[k])
          /\ \A i \in 1..(k - 1) : jobs[j].Steps[i].Status = "completed"
          /\ \A i \in (k + 1)..Len(jobs[j].Steps) : jobs[j].Steps[i].Status = "pending"

(* C15: a failed similarity search leaves its own list empty and the other  *)
(* two lists as their searches returned them, and retrieveContext returns   *)
(* an error exactly when the query-embedding call failed.                   *)
C15_PartitionsIndependent ==
  probe.fn = "retrieveContext" =>
    /\ \A t \in 1..probe.searched :
         probe.context[SourceTypes[t]] =
           IF probe.search[SourceTypes[t]].err THEN << >> ELSE probe.search[SourceTypes[t]].chunks
    /\ probe.pc = "returned" =>
         /\ probe.ok <=> generateQueryEmbedding(probe.answers).ok
         /\ probe.ok => probe.searched = Len(SourceTypes)
         /\ probe.context = retrieveContext(probe.answers, probe.search).context

C15_Witness ==
  /\ probe.fn = "retrieveContext" /\ probe.pc = "returned" /\ probe.ok
  /\ probe.search["appeal_decision"].err
  /\ probe.context["regulation"] = << "chunk A" >>
  /\ probe.context["appeal_decision"] = << >>
  /\ probe.context["precedent_case"] = << "chunk A", "chunk B" >>

(* C16: the context of the ProcessDraft run is never done because of the    *)
(* generate request, so every call of the run can still succeed after the   *)
(* request was cancelled, and the cancellation itself changes no job, no    *)
(* petition and nothing of the run.                                         *)
C16_RunOutlivesRequest ==
  /\ [](\A j \in JobIDs :
          /\ ~CtxDone(run[j])
          /\ CallOutcomes(run[j]) = BOOLEAN
          /\ ServiceResults(run[j], Prong1Results) = Prong1Results
          /\ ServiceResults(run[j], Prong2Results) = Prong2Results)
  /\ [][\A j \in DOMAIN run :
          run'[j].requestOpen # run[j].requestOpen =>
            /\ jobs' = jobs /\ petitions' = petitions
            /\ run' = [run EXCEPT ![j].requestOpen = FALSE]]_vars

C16_Witness ==
  \E j \in JobIDs :
    /\ ~run[j].requestOpen
    /\ jobs[j].Status = JobStatusCompleted
    /\ Content(j) = run[j].assembled /\ run[j].wrote

(* C17: each request whose GenerateDraft succeeded starts ProcessDraft once *)
(* for the job it created, a request whose GenerateDraft failed starts      *)
(* none, and no job id is started twice, however the requests interleave.   *)
Invocations(job) == Cardinality({k \in DOMAIN probe.invoked : probe.invoked[k] = job})

C17_OneProcessPerCreate ==
  probe.fn = "GenerateDraftHandler" =>
    /\ \A job \in 1..Len(jobs) : Invocations(job) <= 1
    /\ \A k \in DOMAIN probe.invoked : probe.invoked[k] \in 1..Len(jobs)
    /\ \A r \in RequestIDs :
         LET req == probe.reqs[r]
         IN  /\ req.pc \in {"respond", "done"} /\ req.err = ErrNone =>
                  req.job \in 1..Len(jobs) /\ Invocations(req.job) = 1
             /\ req.err # ErrNone => req.job = 0 /\ req.pc \in {"respond", "done"}
    /\ \A r1, r2 \in RequestIDs :
         r1 # r2 /\ probe.reqs[r1].job # 0 => probe.reqs[r1].job # probe.reqs[r2].job
    /\ Len(probe.invoked) =
         Cardinality({r \in RequestIDs : probe.reqs[r].pc \in {"respond", "done"}
                                         /\ probe.reqs[r].err = ErrNone})

C17_Witness ==
  /\ probe.fn = "GenerateDraftHandler"
  /\ probe.reqs[1].pc = "done" /\ probe.reqs[2].pc = "done"
  /\ probe.reqs[1].petition = probe.reqs[2].petition
  /\ probe.invoked = << 2, 1 >>
  /\ probe.reqs[1].job = 1

C19_GetStatusIsPureRead ==
  [][ret' # ret /\ ret'.op = "GetJobStatus" =>
       /\ jobs' = jobs /\ petitions' = petitions /\ run' = run
       /\ ret'.asked \notin JobIDs => ret'.err = ErrJobNotFound
       /\ ret'.err # ErrNone => ret'.err = ErrJobNotFound
       /\ ret'.err = ErrNone => ret'.asked \in JobIDs /\ ret'.row = jobs[ret'.asked]]_vars

C19_Witness ==
  /\ ret.op = "GetJobStatus" /\ ret.err = ErrNone
  /\ ret.row.Status = JobStatusInProgress
  /\ ret.row.CurrentStep = FinalMeritsStep
  /\ jobs[ret.job].Status = JobStatusCompleted

(* C20: the document has the five banners in order; the text of every       *)
(* criterion section stands between banner III and banner IV, in selection  *)
(* order, and the merits text between banner IV and banner V.               *)
Banners == << "I. INTRODUCTION", "II. QUALIFICATIONS SUMMARY", "III. REGULATORY CRITERIA",
              "IV. FINAL MERITS DETERMINATION", "V. CONCLUSION" >>

BannerAt(b) == IndexOf(probe.document, Banners[b])

SectionStarts ==                     \* where the texts of the criterion sections can start
  { f \in [1..Len(probe.criteria) -> (BannerAt(3) + 1)..(BannerAt(4) - 1)] :
      /\ \A k \in DOMAIN f :
           SubSeq(probe.document, f[k], f[k] + Len(probe.texts[k]) - 1) = probe.texts[k]
      /\ \A k \in 1..(Len(f) - 1) : f[k] + Len(probe.texts[k]) <= f[k + 1]
      /\ f[Len(f)] + Len(probe.texts[Len(f)]) <= BannerAt(4) }

C20_BannersAndSectionsInOrder ==
  probe.fn = "assembleDocument" /\ probe.pc = "returned" =>
    /\ \A b \in DOMAIN Banners :
         Cardinality({i \in DOMAIN probe.document : probe.document[i] = Banners[b]}) = 1
    /\ \A b \in 1..(Len(Banners) - 1) : BannerAt(b) < BannerAt(b + 1)
    /\ SectionStarts # {}
    /\ \E i \in (BannerAt(4) + 1)..(BannerAt(5) - 1) : probe.document[i] = "merits body"
    /\ \A i \in DOMAIN probe.document :
         probe.document[i] \in {"body", "merits body"} =>
           (probe.document[i] = "merits body") = (i > BannerAt(4))

C20_Witness ==
  /\ probe.fn = "assembleDocument" /\ probe.pc = "returned"
  /\ probe.criteria = << "judging", "awards" >>
  /\ probe.texts[1] = << "Criterion 4: Participation as a Judge", "\n", "body" >>
  /\ probe.texts[2] = << "body" >>
  /\ probe.merits = << "Final Merits Determination", ":", " ", "merits body" >>
  /\ Len(probe.document) = 15

(***************************************************************************)
(* sanitizeFieldOfExpertise.  A field is a sequence of characters; the     *)
(* letters that occur in upper case in the inputs are I, A, M, N and F.     *)
(***************************************************************************)
MaxPieces == 3

fieldPrefixes ==
  << << "I", " ", "a", "m", " ", "a" >>,
     << "I", " ", "a", "m", " ", "a", "n" >>,
     << "I", " ", "s", "p", "e", "c", "i", "a", "l", "i", "z", "e", " ", "i", "n" >>,
     << "F", "i", "e", "l", "d", " ", "o", "f" >>,
     << "A", "r", "e", "a", " ", "o", "f" >> >>

FieldToLower(c) ==
  CASE c = "I" -> "i" [] c = "A" -> "a" [] c = "M" -> "m"
    [] c = "N" -> "n" [] c = "F" -> "f" [] OTHER -> c

HasPrefixFold(field, prefix) ==
  /\ Len(field) >= Len(prefix)
  /\ \A i \in 1..Len(prefix) : FieldToLower(field[i]) = FieldToLower(prefix[i])

RECURSIVE stripPrefixes(_, _)
stripPrefixes(field, k) ==
  IF k > Len(fieldPrefixes) THEN field
  ELSE stripPrefixes(IF HasPrefixFold(field, fieldPrefixes[k])
                     THEN TrimSpace(SubSeq(field, Len(fieldPrefixes[k]) + 1, Len(field)))
                     ELSE field,
                     k + 1)

RECURSIVE Fields(_)
Fields(s) ==
  LET t == TrimLeft(s)
  IN  IF t = << >> THEN << >>
      ELSE LET stops == {i \in DOMAIN t : IsSpace(t[i])}
               n == IF stops = {} THEN Len(t) + 1
                    ELSE CHOOSE i \in stops : \A h \in stops : i <= h
           IN  << SubSeq(t, 1, n - 1) >> \o Fields(SubSeq(t, n, Len(t)))

RECURSIVE JoinWith(_, _)
JoinWith(words, sep) ==
  IF words = << >> THEN << >>
  ELSE IF Len(words) = 1 THEN words[1]
  ELSE words[1] \o sep \o JoinWith(Tail(words), sep)

sanitizeFieldOfExpertise(field) ==
  LET words == Fields(stripPrefixes(TrimSpace(field), 1))
  IN  JoinWith(IF Len(words) > 5 THEN SubSeq(words, 1, 5) ELSE words, << " " >>)

FieldPieces ==
  Range(fieldPrefixes) \cup
  { << "i", " ", "A", "M", " ", "A", "N" >>,
    << "x" >>,
    << "a", " ", "b", " ", "c", " ", "d", " ", "e", " ", "f" >> }

FieldSeparators == { << >>, << " " >>, << " ", " " >> }

FieldInputs ==
  [pieces : SeqsUpTo(FieldPieces, MaxPieces) \ {<< >>},
   sep : FieldSeparators,
   pad : { << >>, << " " >> }]

FieldOf(in) == in.pad \o JoinWith(in.pieces, in.sep) \o in.pad

InitSanitize ==
  /\ petitions = [p \in PetitionIDs |-> EmptyPetition]
  /\ jobs = << >>
  /\ run = << >>
  /\ ret = [op |-> "none", err |-> ErrNone, job |-> 0]
  /\ sent = NoCalls
  /\ \E in \in FieldInputs :
       probe = [fn |-> "sanitizeFieldOfExpertise", pc |-> "input", in |-> in,
                field |-> FieldOf(in), out |-> << >>, again |-> << >>]

Sanitize ==
  /\ probe.pc = "input"
  /\ probe' = [probe EXCEPT !.pc = "returned",
                            !.out = sanitizeFieldOfExpertise(probe.field)]
  /\ UNCHANGED << petitions, jobs, run, ret, sent >>

SanitizeAgain ==
  /\ probe.pc = "returned"
  /\ probe' = [probe EXCEPT !.pc = "again",
                            !.again = sanitizeFieldOfExpertise(probe.out)]
  /\ UNCHANGED << petitions, jobs, run, ret, sent >>

NextSanitize == Sanitize \/ SanitizeAgain

SpecSanitize == InitSanitize /\ [][NextSanitize]_vars

(***************************************************************************)
(* formatClientFacts, case "authorship".  A number is kept in tenths with   *)
(* its Go type, so 89 as an int is [type |-> "int", tenths |-> 890] and     *)
(* 12.5 is [type |-> "float64", tenths |-> 125].  The publications carry a  *)
(* title and citations; the other optional keys are absent.                 *)
(***************************************************************************)
MaxPublications == 2

Absent == [type |-> "absent", tenths |-> 0]

CitationValues ==
  [type : {"int", "int64", "float64"}, tenths : {0, 120, 890}] \cup
  [type : {"float64"}, tenths : {5, 124, 125, 127, 135}]

PublicationRows == [title : {Nil, "Paper"}, citations : CitationValues \cup {Absent}]

FormatFloat0(tenths) ==     \* %.0f: nearest integer, a tie goes to the even one
  LET q == tenths \div 10
      r == tenths % 10
  IN  ToString(IF r < 5 THEN q
               ELSE IF r > 5 THEN q + 1
               ELSE IF q % 2 = 0 THEN q ELSE q + 1)

FormatInt(tenths) == ToString(tenths \div 10)     \* %d

formatPublication(i, p) ==
  << "Publication " \o ToString(i) \o ":" >>
  \o (IF p.title # Nil THEN << "\nTitle: ", p.title >> ELSE << >>)
  \o (IF p.citations.type = "float64"
        THEN << "\nCitations: ", FormatFloat0(p.citations.tenths) >>
      ELSE IF p.citations.type \in {"int", "int64"}
        THEN << "\nCitations: ", FormatInt(p.citations.tenths) >>
      ELSE << >>)

RECURSIVE formatPublications(_, _)
formatPublications(publications, i) ==
  IF i > Len(publications) THEN << >>
  ELSE (IF i > 1 THEN << "\n\n" >> ELSE << >>)
       \o formatPublication(i, publications[i])
       \o formatPublications(publications, i + 1)

InitFacts ==
  /\ petitions = [p \in PetitionIDs |-> EmptyPetition]
  /\ jobs = << >>
  /\ run = << >>
  /\ ret = [op |-> "none", err |-> ErrNone, job |-> 0]
  /\ sent = NoCalls
  /\ \E pubs \in SeqsUpTo(PublicationRows, MaxPublications) :
       probe = [fn |-> "formatClientFacts", pc |-> "input", criterion |-> "authorship",
                publications |-> pubs, facts |-> << >>]

FormatFacts ==
  /\ probe.pc = "input"
  /\ probe' = [probe EXCEPT !.pc = "returned",
                            !.facts = formatPublications(probe.publications, 1)]
  /\ UNCHANGED << petitions, jobs, run, ret, sent >>

NextFacts == FormatFacts

SpecFacts == InitFacts /\ [][NextFacts]_vars

(***************************************************************************)
(* Two ProcessDraft invocations on the same job.  Both have loaded the job *)
(* and the petition; every step is one repository call or one generation,  *)
(* the repository calls succeed, a generation succeeds at once or fails.      *)
(***************************************************************************)
RaceRuns == {1, 2}

RaceJob == 1

RacePetition ==
  [EmptyPetition EXCEPT !.ClientName = "Jane Doe", !.FieldOfExpertise = "Machine Learning",
                        !.SelectedCriteria = << "awards", "judging" >>,
                        !.CriteriaDetails = {"awards", "judging"}]

RaceProng1Results == {g \in Prong1Results : g.ok => g.attempts = 1}

RaceProng2Results == {g \in Prong2Results : g.ok => g.attempts = 1}

InitRace ==
  /\ petitions = [p \in PetitionIDs |-> RacePetition]
  /\ jobs = << jobRepoCreate("p1", initializeSteps(RacePetition.SelectedCriteria)) >>
  /\ run = [r \in RaceRuns |->
              [NewRun(NoContent) EXCEPT !.pc = "updateStatus", !.petition = RacePetition]]
  /\ ret = [op |-> "none", err |-> ErrNone, job |-> 0]
  /\ sent = NoCalls
  /\ probe = [fn |-> "ProcessDraft", last |-> 0]

RaceRunning(r, pc) == r \in RaceRuns /\ run[r].pc = pc

RaceDone(r) == probe' = [probe EXCEPT !.last = r] /\ UNCHANGED << ret, sent >>

RaceUpdateStatus(r) ==               \* 2. jobRepo.UpdateStatus(in_progress)
  /\ RaceRunning(r, "updateStatus")
  /\ jobs' = [jobs EXCEPT ![RaceJob] = jobRepoUpdateStatus(@, JobStatusInProgress)]
  /\ run' = [run EXCEPT ![r] = BeginCriterionOrMerits(@, 1)]
  /\ UNCHANGED petitions /\ RaceDone(r)

RaceStepRead(r) ==                   \* updateStepStatus: jobRepo.GetByID
  /\ RaceRunning(r, "stepRead")
  /\ run' = [run EXCEPT ![r] =
               [@ EXCEPT !.pc = "stepWrite",
                         !.local = [Steps |-> jobs[RaceJob].Steps,
                                    CurrentStep |-> jobs[RaceJob].CurrentStep]]]
  /\ UNCHANGED << petitions, jobs >> /\ RaceDone(r)

RaceStepWrite(r) ==                  \* updateStepStatus: jobRepo.UpdateProgress
  /\ RaceRunning(r, "stepWrite")
  /\ LET new == updateStepStatusApply(run[r].local.Steps, run[r].local.CurrentStep,
                                      run[r].stepName, run[r].stepStatus)
     IN  jobs' = [jobs EXCEPT ![RaceJob] = jobRepoUpdateProgress(@, new.CurrentStep, new.Steps)]
  /\ run' = [run EXCEPT ![r] = AfterUpdateStep(@)]
  /\ UNCHANGED petitions /\ RaceDone(r)

RaceGenerate(r) ==                   \* 3. retrieveContext, generateProng1Section
  /\ RaceRunning(r, "generate")
  /\ LET criterion == run[r].petition.SelectedCriteria[run[r].i]
     IN  \E g \in RaceProng1Results :
           run' = [run EXCEPT ![r] =
                     IF ~g.ok
                     THEN FailWith(@, "failed to generate section for " \o criterion \o ": " \o g.msg)
                     ELSE CallUpdateStep(
                            [@ EXCEPT !.sections = Append(@, [Title |-> getCriterionTitle(criterion),
                                                              Content |-> g.content])],
                            getCriterionStepName(criterion), "completed", "advance")]
  /\ UNCHANGED << petitions, jobs >> /\ RaceDone(r)

RaceMerits(r) ==                     \* 4. generateProng2
  /\ RaceRunning(r, "merits")
  /\ \E g \in RaceProng2Results :
       run' = [run EXCEPT ![r] =
                 IF ~g.ok
                 THEN FailWith(@, "failed to generate final merits: " \o g.msg)
                 ELSE CallUpdateStep(
                        [@ EXCEPT !.sections = Append(@, [Title |-> FinalMeritsStep, Content |-> g.content])],
                        FinalMeritsStep, "completed", "meritsDone")]
  /\ UNCHANGED << petitions, jobs >> /\ RaceDone(r)

RaceStore(r) ==                      \* 6. petitionRepo.UpdateGeneratedContent
  /\ RaceRunning(r, "store")
  /\ petitions' = [petitions EXCEPT ![jobs[RaceJob].PetitionID] =
                     petitionRepoUpdateGeneratedContent(@, run[r].assembled)]
  /\ run' = [run EXCEPT ![r] = [@ EXCEPT !.pc = "complete", !.wrote = TRUE]]
  /\ UNCHANGED jobs /\ RaceDone(r)

RaceComplete(r) ==                   \* 7. jobRepo.Complete
  /\ RaceRunning(r, "complete")
  /\ jobs' = [jobs EXCEPT ![RaceJob] = jobRepoComplete(@)]
  /\ run' = [run EXCEPT ![r] = Return(@, FALSE)]
  /\ UNCHANGED petitions /\ RaceDone(r)

RaceMarkFailed(r) ==                 \* markJobFailed: jobRepo.Fail
  /\ RaceRunning(r, "markFailed")
  /\ jobs' = [jobs EXCEPT ![RaceJob] = jobRepoFail(@, run[r].failMsg)]
  /\ run' = [run EXCEPT ![r] = Return(@, TRUE)]
  /\ UNCHANGED petitions /\ RaceDone(r)

NextRace ==
  \E r \in RaceRuns :
    \/ RaceUpdateStatus(r)
    \/ RaceStepRead(r)
    \/ RaceStepWrite(r)
    \/ RaceGenerate(r)
    \/ RaceMerits(r)
    \/ RaceStore(r)
    \/ RaceComplete(r)
    \/ RaceMarkFailed(r)

SpecRace == InitRace /\ [][NextRace]_vars

(***************************************************************************)
(* The two retry loops side by side: a call of generateQueryEmbedding, of  *)
(* generateProng1Section or of generateProng2.                             *)
(***************************************************************************)
InitBackoff == InitEmbedding \/ InitGeneration

NextBackoff == NextEmbedding \/ NextGeneration

SpecBackoff == InitBackoff /\ [][NextBackoff]_vars

(***************************************************************************)
(* LegalChunkRepository.SearchByCriterion over a table of legal chunks.     *)
(* distance is the row's embedding <=> the query vector, for the one query  *)
(* vector of the model.  Rows at the same distance come in either order.    *)
(***************************************************************************)
Chunk(id, sourceType, tag, visa, winning, holding, distance) ==
  [id |-> id, source_type |-> sourceType, criterion_tag |-> tag, visa_type |-> visa,
   is_winning_argument |-> winning, is_holding |-> holding, distance |-> distance]

LegalChunks ==
  { Chunk(1, "regulation", "awards", "O-1", FALSE, FALSE, 1),
    Chunk(2, "regulation", "awards", "O-1", FALSE, FALSE, 2),
    Chunk(3, "regulation", "awards", "O-1", FALSE, FALSE, 2),
    Chunk(4, "regulation", "awards", "O-1", FALSE, FALSE, 3),
    Chunk(5, "regulation", "judging", "O-1", FALSE, FALSE, 1),
    Chunk(6, "regulation", Nil, "O-1", FALSE, FALSE, 1),
    Chunk(7, "regulation", "awards", "EB-1", FALSE, FALSE, 1),
    Chunk(8, "appeal_decision", "awards", "O-1", TRUE, FALSE, 2),
    Chunk(9, "appeal_decision", "awards", "O-1", FALSE, FALSE, 1),
    Chunk(10, "appeal_decision", Nil, "O-1", TRUE, FALSE, 1),
    Chunk(11, "precedent_case", "awards", "O-1", FALSE, TRUE, 1),
    Chunk(12, "precedent_case", "awards", "O-1", FALSE, FALSE, 1),
    Chunk(13, "precedent_case", "awards", "O-1", FALSE, TRUE, 2),
    Chunk(14, "precedent_case", "awards", "O-1", FALSE, TRUE, 3) }

chunkMatches_IgnoresFlags(row, criterion, sourceType) ==
  /\ IF criterion = "" THEN row.criterion_tag = Nil ELSE row.criterion_tag = criterion
  /\ row.source_type = sourceType
  /\ row.visa_type = "O-1"

chunkMatches(row, criterion, sourceType) ==          \* the WHERE clause
  /\ IF criterion = "" THEN row.criterion_tag = Nil ELSE row.criterion_tag = criterion
  /\ row.source_type = sourceType
  /\ row.visa_type = "O-1"
  /\ (row.source_type # "appeal_decision" \/ row.is_winning_argument)
  /\ (row.source_type # "precedent_case" \/ row.is_holding)

SearchByCriterion(table, criterion, sourceType, limit) ==   \* ORDER BY distance LIMIT limit
  LET hits == {row \in table : chunkMatches(row, criterion, sourceType)}
      n == IF Cardinality(hits) < limit THEN Cardinality(hits) ELSE limit
  IN  {c \in SeqsUpTo(hits, n) :
         /\ Len(c) = n
         /\ \A a, b \in DOMAIN c : a < b => c[a] # c[b] /\ c[a].distance <= c[b].distance
         /\ \A row \in hits \ Range(c) : \A a \in DOMAIN c : c[a].distance <= row.distance}

SearchCalls ==
  { [criterion |-> c, source_type |-> "regulation", limit |-> 3] : c \in {"awards", "judging"} } \cup
  { [criterion |-> c, source_type |-> "appeal_decision", limit |-> 3] : c \in {"awards", "judging"} } \cup
  { [criterion |-> c, source_type |-> "precedent_case", limit |-> 2] : c \in {"awards", "judging"} } \cup
  { [criterion |-> "", source_type |-> "regulation", limit |-> 5],
    [criterion |-> "", source_type |-> "appeal_decision", limit |-> 5] }

InitSearch ==
  /\ petitions = [p \in PetitionIDs |-> EmptyPetition]
  /\ jobs = << >>
  /\ run = << >>
  /\ ret = [op |-> "none", err |-> ErrNone, job |-> 0]
  /\ sent = NoCalls
  /\ \E table \in SUBSET LegalChunks :
       probe = [fn |-> "SearchByCriterion", pc |-> "table", table |-> table,
                query |-> Nil, chunks |-> << >>, context |-> EmptyContext]

Search ==                            \* one call of SearchByCriterion
  /\ probe.fn = "SearchByCriterion" /\ probe.pc = "table"
  /\ \E q \in SearchCalls :
       \E chunks \in SearchByCriterion(probe.table, q.criterion, q.source_type, q.limit) :
         probe' = [probe EXCEPT !.pc = "returned", !.query = q, !.chunks = chunks]
  /\ UNCHANGED << petitions, jobs, run, ret, sent >>

SearchForContext ==                  \* the three searches of retrieveContext
  /\ probe.fn = "SearchByCriterion" /\ probe.pc = "table"
  /\ \E criterion \in {"awards", "judging"} :
       \E regs \in SearchByCriterion(probe.table, criterion, "regulation", 3),
          appeals \in SearchByCriterion(probe.table, criterion, "appeal_decision", 3),
          cases \in SearchByCriterion(probe.table, criterion, "precedent_case", 2) :
         probe' = [probe EXCEPT
                     !.pc = "context",
                     !.query = [criterion |-> criterion, source_type |-> "all", limit |-> 0],
                     !.context = searchInto(searchInto(searchInto(EmptyContext,
                                   "regulation", [err |-> FALSE, chunks |-> regs]),
                                   "appeal_decision", [err |-> FALSE, chunks |-> appeals]),
                                   "precedent_case", [err |-> FALSE, chunks |-> cases])]
  /\ UNCHANGED << petitions, jobs, run, ret, sent >>

NextSearch == Search \/ SearchForContext

SpecSearch == InitSearch /\ [][NextSearch]_vars

(***************************************************************************)
(* generateProng1Section: the LEGAL STANDARD and PRECEDENT CASES parts of  *)
(* the prompt, built from the context ProcessDraft got from retrieveContext *)
(* (the empty context when retrieveContext returned an error).              *)
(***************************************************************************)
HardcodedRegulationTable(c) ==
  CASE c = "awards" ->
         "Documentation of the alien's receipt of lesser nationally or internationally recognized prizes or awards for excellence in the field of endeavor (8 C.F.R. § 214.2(o)(3)(iii)(A))."
    [] c = "membership" ->
         "Documentation of the alien's membership in associations in the field for which classification is sought, which require outstanding achievements of their members, as judged by recognized national or international experts in their disciplines or fields (8 C.F.R. § 214.2(o)(3)(iii)(B))."
    [] c = "media_coverage" ->
         "Published material about the alien in professional or major trade publications or other major media, relating to the alien's work in the field for which classification is sought. Such evidence shall include the title, date, and author of the material, and any necessary translation (8 C.F.R. § 214.2(o)(3)(iii)(C))."
    [] c = "judging" ->
         "Evidence of the alien's participation, either individually or on a panel, as a judge of the work of others in the same or an allied field of specification for which classification is sought (8 C.F.R. § 214.2(o)(3)(iii)(D))."
    [] c = "original_contributions" ->
         "Evidence of the alien's original scientific, scholarly, artistic, athletic, or business-related contributions of major significance in the field (8 C.F.R. § 214.2(o)(3)(iii)(E))."
    [] c = "authorship" ->
         "Evidence of the alien's authorship of scholarly articles in the field, in professional or major trade publications or other major media (8 C.F.R. § 214.2(o)(3)(iii)(F))."
    [] c = "exhibitions" ->
         "Evidence of the display of the alien's work in the field at artistic exhibitions or showcases (8 C.F.R. § 214.2(o)(3)(iii)(G))."
    [] c = "critical_role" ->
         "Evidence that the alien has performed in a leading or critical role for organizations or establishments that have a distinguished reputation (8 C.F.R. § 214.2(o)(3)(iii)(H))."
    [] c = "high_salary" ->
         "Evidence that the alien has commanded a high salary or other significantly high remuneration for services, in relation to others in the field (8 C.F.R. § 214.2(o)(3)(iii)(I))."
    [] c = "commercial_success" ->
         "Evidence of commercial successes in the performing arts, as shown by box office receipts or record, cassette, compact disk, or video sales (8 C.F.R. § 214.2(o)(3)(iii)(J))."

getHardcodedRegulation(c) ==
  IF c \in KnownCriteria THEN HardcodedRegulationTable(c)
  ELSE "Evidence that the alien meets the regulatory criteria for extraordinary ability (8 C.F.R. § 214.2(o)(3)(iii))."

ChunkTextsOf(chunks) == Concat([n \in DOMAIN chunks |-> << chunks[n], "\n\n" >>])

legalStandardText_NoFallback(criterion, regulations) == ChunkTextsOf(regulations)

legalStandardText(criterion, regulations) ==
  LET written == ChunkTextsOf(regulations)
  IN  IF CharLen(written) = 0                      \* regulationText.Len() == 0
      THEN << getHardcodedRegulation(criterion), "\n\n" >>
      ELSE written

appealText(appeals) == ChunkTextsOf(appeals)

ChunkTexts == {"", "regulation text A", "regulation text B"}

RetrievalReturns ==
  {[err |-> TRUE, context |-> EmptyContext]} \cup
  {[err |-> FALSE, context |-> [EmptyContext EXCEPT !.regulation = regs, !.appeal_decision = apps]] :
     regs \in SeqsUpTo(ChunkTexts, 3), apps \in SeqsUpTo({"", "appeal text"}, 1)}

contextForPrompt(retrieved) ==       \* if err != nil { context = &RetrievedContext{} }
  IF retrieved.err THEN EmptyContext ELSE retrieved.context

InitPrompt ==
  /\ petitions = [p \in PetitionIDs |-> EmptyPetition]
  /\ jobs = << >>
  /\ run = << >>
  /\ ret = [op |-> "none", err |-> ErrNone, job |-> 0]
  /\ sent = NoCalls
  /\ \E criterion \in CriterionIDs, retrieved \in RetrievalReturns :
       probe = [fn |-> "generateProng1Section", pc |-> "prompt", criterion |-> criterion,
                retrieved |-> retrieved, legal |-> << >>, appeal |-> << >>]

BuildPrompt ==
  /\ probe.fn = "generateProng1Section" /\ probe.pc = "prompt"
  /\ LET context == contextForPrompt(probe.retrieved)
     IN  probe' = [probe EXCEPT !.pc = "built",
                                !.legal = legalStandardText(probe.criterion, context.regulation),
                                !.appeal = appealText(context.appeal_decision)]
  /\ UNCHANGED << petitions, jobs, run, ret, sent >>

NextPrompt == BuildPrompt

SpecPrompt == InitPrompt /\ [][NextPrompt]_vars

(***************************************************************************)
(* One stage of ProcessDraft with its service calls spelled out: a          *)
(* criterion (details, retrieveContext, generateProng1Section) or the final *)
(* merits (generateProng2: query embedding, two searches, completion).      *)
(* probe.search is what the similarity searches of the stage come back      *)
(* with; the embedding and completion services answer at the step.          *)
(***************************************************************************)
StageSearchOutcomes ==
  {[err |-> TRUE, chunks |-> << >>], [err |-> FALSE, chunks |-> << >>],
   [err |-> FALSE, chunks |-> << "chunk A" >>]}

ZeroVector == [dims |-> 768, values |-> "zero"]        \* make([]float64, 768)

QueryVector == [dims |-> 768, values |-> "embedding"]

afterRetrieveContext_FailsJob(rc) ==
  [next |-> IF rc.ok THEN "generate" ELSE "failed",
   context |-> IF rc.ok THEN rc.context ELSE EmptyContext]

afterRetrieveContext(rc) ==          \* if err != nil { log; context = &RetrievedContext{} }
  [next |-> "generate", context |-> IF rc.ok THEN rc.context ELSE EmptyContext]

prong2Vector(e) == IF e.ok THEN QueryVector ELSE ZeroVector

InitStage ==
  /\ petitions = [p \in PetitionIDs |-> EmptyPetition]
  /\ jobs = << >>
  /\ run = << >>
  /\ ret = [op |-> "none", err |-> ErrNone, job |-> 0]
  /\ sent = NoCalls
  /\ \E stage \in {"criterion", "merits"}, hasDetails \in BOOLEAN,
        criterion \in {"judging", "Awards"},
        search \in [Range(SourceTypes) -> StageSearchOutcomes] :
       /\ stage = "merits" => hasDetails
       /\ probe = [fn |-> "ProcessDraft", stage |-> stage, criterion |-> criterion,
                   hasDetails |-> hasDetails, search |-> search,
                   pc |-> IF stage = "criterion" THEN "details" ELSE "retrieve",
                   embedOK |-> TRUE, genOK |-> TRUE, context |-> EmptyContext,
                   vector |-> QueryVector, legal |-> << >>,
                   status |-> JobStatusInProgress, msg |-> ""]

StageDetails ==                      \* details, ok := petition.CriteriaDetails[criterion]
  /\ probe.fn = "ProcessDraft" /\ probe.pc = "details"
  /\ probe' = IF probe.hasDetails
              THEN [probe EXCEPT !.pc = "retrieve"]
              ELSE [probe EXCEPT !.pc = "done", !.status = JobStatusFailed,
                                 !.msg = "missing details for criterion: " \o probe.criterion]
  /\ UNCHANGED << petitions, jobs, run, ret, sent >>

StageRetrieve ==                     \* context, err := s.retrieveContext(...)
  /\ probe.fn = "ProcessDraft" /\ probe.pc = "retrieve" /\ probe.stage = "criterion"
  /\ \E answers \in [1..maxRetries -> RunEmbedAnswers] :
       LET rc == retrieveContext(answers, probe.search)
           after == afterRetrieveContext(rc)
       IN  probe' = IF after.next = "generate"
                    THEN [probe EXCEPT !.pc = "generate", !.embedOK = rc.ok,
                                       !.context = after.context]
                    ELSE [probe EXCEPT !.pc = "done", !.embedOK = rc.ok,
                                       !.status = JobStatusFailed,
                                       !.msg = "failed to retrieve context: " \o rc.msg]
  /\ UNCHANGED << petitions, jobs, run, ret, sent >>

StageRetrieveMerits ==               \* generateProng2: embedding, Kazarian and Chawathe searches
  /\ probe.fn = "ProcessDraft" /\ probe.pc = "retrieve" /\ probe.stage = "merits"
  /\ \E answers \in [1..maxRetries -> RunEmbedAnswers] :
       LET e == generateQueryEmbedding(answers)
       IN  probe' = [probe EXCEPT
                       !.pc = "generate", !.embedOK = e.ok, !.vector = prong2Vector(e),
                       !.context = searchInto(searchInto(EmptyContext,
                                     "regulation", probe.search["regulation"]),
                                     "appeal_decision", probe.search["appeal_decision"])]
  /\ UNCHANGED << petitions, jobs, run, ret, sent >>

StageGenerate ==                     \* the prompt and the retried completion call
  /\ probe.fn = "ProcessDraft" /\ probe.pc = "generate"
  /\ \E g \in (IF probe.stage = "criterion" THEN Prong1Results ELSE Prong2Results) :
       probe' = [probe EXCEPT
                   !.pc = "done", !.genOK = g.ok,
                   !.legal = IF probe.stage = "criterion"
                             THEN legalStandardText(probe.criterion, probe.context.regulation)
                             ELSE @,
                   !.status = IF g.ok THEN @ ELSE JobStatusFailed,
                   !.msg = IF g.ok THEN @
                           ELSE IF probe.stage = "criterion"
                           THEN "failed to generate section for " \o probe.criterion \o ": " \o g.msg
                           ELSE "failed to generate final merits: " \o g.msg]
  /\ UNCHANGED << petitions, jobs, run, ret, sent >>

NextStage == StageDetails \/ StageRetrieve \/ StageRetrieveMerits \/ StageGenerate

SpecStage == InitStage /\ [][NextStage]_vars

(***************************************************************************)
(* A petition edited between GenerateDraft and ProcessDraft.  The job has  *)
(* been created for the petition's criteria; PUT /api/petitions/:id may    *)
(* replace selected_criteria before the one run loads the petition.        *)
(***************************************************************************)
EditCriteria == SeqsUpTo(CriterionIDs, MaxCriteria) \ {<< >>}

EditPetitionRow(criteria) ==
  [RacePetition EXCEPT !.SelectedCriteria = criteria, !.CriteriaDetails = CriterionIDs]

InitEdit ==
  /\ \E criteria \in EditCriteria :
       /\ petitions = [p \in PetitionIDs |-> EditPetitionRow(criteria)]
       /\ jobs = << jobRepoCreate("p1", initializeSteps(criteria)) >>
  /\ run = << [NewRun(NoContent) EXCEPT !.pc = "loadPetition"] >>
  /\ ret = [op |-> "none", err |-> ErrNone, job |-> 0]
  /\ sent = NoCalls
  /\ probe = [fn |-> "ProcessDraft", last |-> 0, edited |-> FALSE]

UpdatePetition(criteria) ==          \* petition.SelectedCriteria = req.SelectedCriteria
  /\ ~probe.edited /\ run[1].pc = "loadPetition"
  /\ petitions' = [petitions EXCEPT !["p1"].SelectedCriteria = criteria]
  /\ probe' = [probe EXCEPT !.edited = TRUE]
  /\ UNCHANGED << jobs, run, ret, sent >>

EditLoadPetition ==                  \* 1. petitionRepo.GetByID(job.PetitionID)
  /\ run[1].pc = "loadPetition"
  /\ run' = [run EXCEPT ![1] = [@ EXCEPT !.pc = "updateStatus",
                                         !.petition = petitions[jobs[RaceJob].PetitionID]]]
  /\ UNCHANGED << petitions, jobs >> /\ RaceDone(1)

NextEdit ==
  \/ \E criteria \in EditCriteria : UpdatePetition(criteria)
  \/ EditLoadPetition
  \/ RaceUpdateStatus(1)
  \/ RaceStepRead(1)
  \/ RaceStepWrite(1)
  \/ RaceGenerate(1)
  \/ RaceMerits(1)
  \/ RaceStore(1)
  \/ RaceComplete(1)
  \/ RaceMarkFailed(1)

SpecEdit == InitEdit /\ [][NextEdit]_vars

(***************************************************************************)
(* One ProcessDraft run with its service calls counted.  A step is one     *)
(* stage of the run: the loads and UpdateStatus, one pass of the loop over *)
(* the selected criteria, the final merits, or assembling and storing.     *)
(* ok flags are the outcomes of the stage's repository calls.              *)
(***************************************************************************)
CallsCriteria == SeqsUpTo({"awards", "judging"}, MaxCriteria) \ {<< >>}

afterSection_Repeats(i) == i

afterSection(i) == i + 1             \* the range loop takes the next criterion

InitCalls ==
  /\ petitions = [p \in PetitionIDs |-> EmptyPetition]
  /\ jobs = << >>
  /\ run = << >>
  /\ ret = [op |-> "none", err |-> ErrNone, job |-> 0]
  /\ sent = NoCalls
  /\ \E criteria \in CallsCriteria, details \in {{"awards"}, {"awards", "judging"}} :
       probe = [fn |-> "ProcessDraft", pc |-> "start", criteria |-> criteria, details |-> details,
                i |-> 0, embedCalls |-> 0, genCalls |-> 0, status |-> JobStatusPending]

CallsReturn(status) == [probe EXCEPT !.pc = "returned", !.status = status]

CallsStart ==                        \* 1. and 2.: GetByID, GetByID, UpdateStatus
  /\ probe.fn = "ProcessDraft" /\ probe.pc = "start"
  /\ \E jobOK, petitionOK, statusOK, failOK \in BOOLEAN :
       probe' = IF ~jobOK THEN CallsReturn(probe.status)
                ELSE IF ~petitionOK
                THEN CallsReturn(IF failOK THEN JobStatusFailed ELSE probe.status)
                ELSE IF ~statusOK THEN CallsReturn(probe.status)
                ELSE [probe EXCEPT !.pc = "criterion", !.i = 1, !.status = JobStatusInProgress]
  /\ UNCHANGED << petitions, jobs, run, ret, sent >>

CallsCriterion ==                    \* 3. one pass of the loop, or leaving it
  /\ probe.fn = "ProcessDraft" /\ probe.pc = "criterion"
  /\ IF probe.i > Len(probe.criteria)
     THEN probe' = [probe EXCEPT !.pc = "merits"] /\ sent' = NoCalls
     ELSE \E stepOK, doneOK, failOK \in BOOLEAN, e \in RunEmbedAttempts, g \in Prong1Results :
            LET failed == CallsReturn(IF failOK THEN JobStatusFailed ELSE probe.status)
            IN  IF ~stepOK \/ probe.criteria[probe.i] \notin probe.details
                THEN probe' = failed /\ sent' = NoCalls
                ELSE /\ sent' = [embed |-> e, gen |-> g.attempts]
                     /\ probe' = [(IF g.ok /\ doneOK
                                   THEN [probe EXCEPT !.i = afterSection(@)]
                                   ELSE failed)
                                  EXCEPT !.embedCalls = @ + e, !.genCalls = @ + g.attempts]
  /\ UNCHANGED << petitions, jobs, run, ret >>

CallsMerits ==                       \* 4. generateProng2 between its two step updates
  /\ probe.fn = "ProcessDraft" /\ probe.pc = "merits"
  /\ \E stepOK, doneOK, failOK \in BOOLEAN, e \in RunEmbedAttempts, g \in Prong2Results :
       LET failed == CallsReturn(IF failOK THEN JobStatusFailed ELSE probe.status)
       IN  IF ~stepOK
           THEN probe' = failed /\ sent' = NoCalls
           ELSE /\ sent' = [embed |-> e, gen |-> g.attempts]
                /\ probe' = [(IF g.ok /\ doneOK THEN [probe EXCEPT !.pc = "finish"] ELSE failed)
                             EXCEPT !.embedCalls = @ + e, !.genCalls = @ + g.attempts]
  /\ UNCHANGED << petitions, jobs, run, ret >>

CallsFinish ==                       \* 5. to 7.: assemble, store, Complete
  /\ probe.fn = "ProcessDraft" /\ probe.pc = "finish"
  /\ \E storeOK, completeOK, failOK \in BOOLEAN :
       probe' = IF ~storeOK THEN CallsReturn(IF failOK THEN JobStatusFailed ELSE probe.status)
                ELSE IF ~completeOK THEN CallsReturn(probe.status)
                ELSE CallsReturn(JobStatusCompleted)
  /\ UNCHANGED << petitions, jobs, run, ret, sent >>

NextCalls == CallsStart \/ CallsCriterion \/ CallsMerits \/ CallsFinish

SpecCalls == InitCalls /\ [][NextCalls]_vars /\ WF_vars(NextCalls)

(* C21: in the assembled document every criterion section shows its title   *)
(* exactly once, at its start: the text's own title when the text starts    *)
(* with it (in any letter case, after leading white space), and otherwise   *)
(* the title the assembler puts in front of the text.                       *)
SectionTitle(k) == getCriterionTitle(probe.criteria[k])

StartsWithOwnTitle(k) ==
  \E i \in DOMAIN probe.texts[k] :
    /\ ToLower(probe.texts[k][i]) = ToLower(SectionTitle(k))
    /\ \A h \in 1..(i - 1) : probe.texts[k][h] \in {" ", "\n"}

SectionFrom(f, k) ==
  IF k = 1 THEN BannerAt(3) + 1 ELSE f[k - 1] + Len(probe.texts[k - 1])

SectionRegion(f, k) == SubSeq(probe.document, SectionFrom(f, k), f[k] + Len(probe.texts[k]) - 1)

TitlesIn(region, k) ==
  Cardinality({i \in DOMAIN region : ToLower(region[i]) = ToLower(SectionTitle(k))})

C21_TitleExactlyOnce ==
  probe.fn = "assembleDocument" /\ probe.pc = "returned" =>
    \E f \in SectionStarts :
      /\ f[Len(f)] + Len(probe.texts[Len(f)]) = BannerAt(4)
      /\ \A k \in DOMAIN f :
           /\ TitlesIn(SectionRegion(f, k), k) = 1
           /\ ToLower(TrimLeft(SectionRegion(f, k))[1]) = ToLower(SectionTitle(k))
           /\ IF StartsWithOwnTitle(k)
              THEN SectionRegion(f, k) = probe.texts[k]
              ELSE SectionRegion(f, k) = << SectionTitle(k) >> \o probe.texts[k]

C21_Witness ==
  /\ probe.fn = "assembleDocument" /\ probe.pc = "returned"
  /\ probe.criteria = << "awards", "judging" >>
  /\ probe.texts[1] = << "body" >>
  /\ probe.texts[2] = << " ", "CRITERION 4: PARTICIPATION AS A JUDGE", "\n", "body" >>
  /\ probe.merits = << "merits body" >>

(* C22: sanitizing a field that has no surrounding white space, begins with *)
(* no filler phrase and has at most 5 words returns it unchanged, and       *)
(* sanitizing a sanitized field changes nothing.                            *)
IsSanitizedField(field) ==
  /\ TrimSpace(field) = field
  /\ \A k \in DOMAIN fieldPrefixes : ~HasPrefixFold(field, fieldPrefixes[k])
  /\ Len(Fields(field)) <= 5

C22_SanitizeIdempotent ==
  /\ probe.fn = "sanitizeFieldOfExpertise" /\ probe.pc # "input" /\ IsSanitizedField(probe.field)
       => probe.out = probe.field
  /\ probe.fn = "sanitizeFieldOfExpertise" /\ probe.pc = "again"
       => probe.again = probe.out

(* C26: for white space, one filler phrase, white space and a remainder of  *)
(* words, sanitizing returns the first 5 words of the remainder joined by   *)
(* single spaces.                                                           *)
FirstWords(words, n) == IF Len(words) > n THEN SubSeq(words, 1, n) ELSE words

C26_FillerThenFiveWords ==
  /\ probe.fn = "sanitizeFieldOfExpertise" /\ probe.pc # "input"
  /\ Len(probe.in.pieces) >= 2
  /\ probe.in.sep # << >>
  /\ \E k \in DOMAIN fieldPrefixes :
       [i \in DOMAIN probe.in.pieces[1] |-> FieldToLower(probe.in.pieces[1][i])]
         = [i \in DOMAIN fieldPrefixes[k] |-> FieldToLower(fieldPrefixes[k][i])]
  => /\ probe.out = JoinWith(FirstWords(Fields(JoinWith(Tail(probe.in.pieces), probe.in.sep)), 5),
                             << " " >>)
     /\ Len(Fields(probe.out)) <= 5

(* C23: for every publication whose citations value is N, given as an       *)
(* integer or as a floating-point number, the fact block shows              *)
(* "Citations: N" with exactly that value, once for that entry, not rounded. *)
ExactNumber(tenths) ==
  IF tenths % 10 = 0 THEN ToString(tenths \div 10)
  ELSE ToString(tenths \div 10) \o "." \o ToString(tenths % 10)

EntryStart(i) ==
  CHOOSE n \in DOMAIN probe.facts : probe.facts[n] = "Publication " \o ToString(i) \o ":"

EntryEnd(i) ==
  IF i = Len(probe.publications) THEN Len(probe.facts) ELSE EntryStart(i + 1) - 1

C23_CitationsVerbatim ==
  probe.fn = "formatClientFacts" /\ probe.pc = "returned" =>
    \A i \in DOMAIN probe.publications :
      LET labels == {n \in EntryStart(i)..EntryEnd(i) : probe.facts[n] = "\nCitations: "}
      IN  IF probe.publications[i].citations = Absent THEN labels = {}
          ELSE /\ Cardinality(labels) = 1
               /\ \A n \in labels :
                    probe.facts[n + 1] = ExactNumber(probe.publications[i].citations.tenths)

(* C24: ProcessDraft takes the criteria one at a time in the petition's     *)
(* stored order: it goes on to criterion i+1 only in the step that records  *)
(* the step of criterion i as completed; the service calls of a criterion   *)
(* are made when exactly the sections of the criteria before it exist, and  *)
(* the merits completion call when there is a section for every criterion.  *)
SectionTitles(r) == [n \in DOMAIN r.sections |-> r.sections[n].Title]

TitlesUpTo(r, n) == [h \in 1..n |-> getCriterionTitle(r.petition.SelectedCriteria[h])]

RaceTerminal(job) == job.Status \in {JobStatusCompleted, JobStatusFailed}

C25_StaleWriteOverwrites ==
  [][\A r \in RaceRuns :
       /\ run[r].pc = "stepWrite" /\ run'[r] # run[r] =>
            \A n \in DOMAIN jobs[RaceJob].Steps :
              /\ jobs[RaceJob].Steps[n].Status = "completed"
              /\ run[r].local.Steps[n].Status # "completed"
              /\ jobs[RaceJob].Steps[n].Name # run[r].stepName
              => jobs'[RaceJob].Steps[n].Status = run[r].local.Steps[n].Status
       /\ RaceTerminal(jobs[RaceJob]) /\ run[r].pc = "updateStatus" /\ run'[r] # run[r] =>
            jobs'[RaceJob].Status = JobStatusInProgress
       /\ RaceTerminal(jobs[RaceJob]) /\ run[r].pc = "markFailed" /\ run'[r] # run[r] =>
            jobs'[RaceJob].Status = JobStatusFailed]_vars

(* One invocation has completed the job, and afterwards the other one has   *)
(* put the second step back to pending and marked the job failed.           *)
C25_Witness ==
  /\ probe.fn = "ProcessDraft"
  /\ \E r \in RaceRuns :
       /\ run[r].pc = "returned" /\ ~run[r].err
       /\ jobs[RaceJob].Status = JobStatusFailed
       /\ jobs[RaceJob].Steps[2].Status = "pending"

(* C27 (as first stated): a retried call that uses all 3 attempts waits     *)
(* 1 s, 2 s and 4 s.                                                        *)
C27_Original ==
  probe.pc = "returned" /\ probe.requests = maxRetries => probe.sleeps = << 1, 2, 4 >>

(* C27: there is one wait before every attempt after the first; the first   *)
(* wait is 1 second and each later one twice the one before, whatever the   *)
(* service answered, so a call that uses all 3 attempts waits 1 s and 2 s   *)
(* and a 4 s wait never happens.                                            *)
C27_BackoffDoubles ==
  /\ Len(probe.sleeps) = (IF probe.requests = 0 THEN 0 ELSE probe.requests - 1)
  /\ \A k \in DOMAIN probe.sleeps :
       probe.sleeps[k] = IF k = 1 THEN 1 ELSE 2 * probe.sleeps[k - 1]
  /\ probe.requests = maxRetries => probe.sleeps = << 1, 2 >>
  /\ \A k \in DOMAIN probe.sleeps : probe.sleeps[k] # 4

C27_Witness ==
  /\ probe.fn = "generateProng2" /\ probe.pc = "returned"
  /\ probe.requests = maxRetries /\ ~probe.ok
  /\ probe.sleeps = << 1, 2 >>

(* C28: every chunk a search returns has the requested source type and the  *)
(* requested criterion tag (no tag for the empty criterion), is a winning   *)
(* argument if it is an appeal decision and a holding if it is a precedent  *)
(* case; at most limit chunks come back, nearest first, and a criterion's   *)
(* context holds at most 3 regulations, 3 appeals and 2 cases.              *)
ChunkAsRequested(chunk, criterion, sourceType) ==
  /\ chunk.source_type = sourceType
  /\ chunk.criterion_tag = (IF criterion = "" THEN Nil ELSE criterion)
  /\ chunk.source_type = "appeal_decision" => chunk.is_winning_argument
  /\ chunk.source_type = "precedent_case" => chunk.is_holding

C28_SearchResultShape ==
  /\ probe.fn = "SearchByCriterion" /\ probe.pc = "returned" =>
       /\ Len(probe.chunks) <= probe.query.limit
       /\ \A n \in DOMAIN probe.chunks :
            /\ ChunkAsRequested(probe.chunks[n], probe.query.criterion, probe.query.source_type)
            /\ n > 1 => probe.chunks[n - 1].distance <= probe.chunks[n].distance
  /\ probe.fn = "SearchByCriterion" /\ probe.pc = "context" =>
       /\ Len(probe.context.regulation) <= 3
       /\ Len(probe.context.appeal_decision) <= 3
       /\ Len(probe.context.precedent_case) <= 2
       /\ \A t \in Range(SourceTypes) : \A n \in DOMAIN probe.context[t] :
            ChunkAsRequested(probe.context[t][n], probe.query.criterion, t)

C28_Witness ==
  /\ probe.fn = "SearchByCriterion" /\ probe.pc = "context"
  /\ probe.table = LegalChunks
  /\ Len(probe.context.regulation) = 3
  /\ Len(probe.context.appeal_decision) = 1
  /\ Len(probe.context.precedent_case) = 2

(* C29: the legal-standard part of a criterion prompt is never empty: it is *)
(* the retrieved regulation chunks' text, one after the other, when there   *)
(* is at least one regulation chunk, and the hard-coded regulation          *)
(* paragraph of the criterion exactly when there is none (also when         *)
(* retrieval failed); the appeal part has no fallback and may be empty.     *)
RetrievedRegulations ==
  IF probe.retrieved.err THEN << >> ELSE probe.retrieved.context.regulation

EveryOther(text) == [n \in 1..(Len(text) \div 2) |-> text[2 * n - 1]]

C29_LegalStandardNeverEmpty ==
  probe.fn = "generateProng1Section" /\ probe.pc = "built" =>
    /\ CharLen(probe.legal) > 0
    /\ RetrievedRegulations # << >> => EveryOther(probe.legal) = RetrievedRegulations
    /\ RetrievedRegulations = << >> <=>
         probe.legal = << getHardcodedRegulation(probe.criterion), "\n\n" >>
    /\ (probe.retrieved.err \/ probe.retrieved.context.appeal_decision = << >>) =>
         probe.appeal = << >>

C29_Witness ==
  /\ probe.fn = "generateProng1Section" /\ probe.pc = "built"
  /\ probe.retrieved.err
  /\ probe.criterion = "judging"
  /\ probe.appeal = << >>
  /\ Len(probe.legal) = 2

(* C30: a failure of the embedding service or of the similarity search      *)
(* never fails the job: a criterion goes on with the empty context and the  *)
(* hard-coded regulation text, the merits section with a zero vector of     *)
(* 768 dimensions; a stage fails the job only for missing details or a      *)
(* failed completion.                                                       *)
StageRetrieved == probe.fn = "ProcessDraft" /\ probe.pc \in {"generate", "done"} /\ probe.hasDetails

C30_RetrievalNeverFailsJob ==
  /\ probe.fn = "ProcessDraft" /\ probe.status = JobStatusFailed =>
       /\ probe.pc = "done"
       /\ ~probe.hasDetails \/ ~probe.genOK
  /\ StageRetrieved /\ ~probe.embedOK /\ probe.stage = "criterion" =>
       /\ probe.context = EmptyContext
       /\ probe.pc = "done" =>
            probe.legal = << getHardcodedRegulation(probe.criterion), "\n\n" >>
  /\ StageRetrieved /\ probe.stage = "merits" =>
       /\ probe.vector.dims = 768
       /\ ~probe.embedOK <=> probe.vector = ZeroVector
  /\ StageRetrieved /\ probe.genOK => probe.status = JobStatusInProgress

C30_Witness ==
  /\ probe.fn = "ProcessDraft" /\ probe.pc = "done"
  /\ probe.stage = "criterion" /\ ~probe.embedOK
  /\ \A t \in Range(SourceTypes) : probe.search[t].err
  /\ probe.status = JobStatusInProgress
  /\ probe.legal # << >>

(* C31: no step ever has the status failed; in a failed job the step the    *)
(* current-step pointer names is the step that was active at the failure    *)
(* and still has the status in_progress, and a pointer that is set names a  *)
(* step that has entered in_progress.                                       *)
StepsNamed(job, name) == {n \in DOMAIN job.Steps : job.Steps[n].Name = name}

C31_FailedStepStaysInProgress ==
  \A j \in JobIDs :
    /\ \A n \in DOMAIN jobs[j].Steps : jobs[j].Steps[n].Status \in {"pending", "in_progress", "completed"}
    /\ jobs[j].CurrentStep # Nil =>
         \E n \in StepsNamed(jobs[j], jobs[j].CurrentStep) :
           jobs[j].Steps[n].Status \in {"in_progress", "completed"}
    /\ jobs[j].Status = JobStatusFailed /\ jobs[j].CurrentStep # Nil =>
         \E n \in StepsNamed(jobs[j], jobs[j].CurrentStep) :
           jobs[j].Steps[n].Status = "in_progress"

(* C32: ProcessDraft invoked on a job that is already completed or failed   *)
(* leaves the job's status, steps and error message and the petition's      *)
(* generated content as they are.                                           *)
InvokedOnTerminalJob(r) ==
  /\ RaceTerminal(jobs[RaceJob])
  /\ run[r].pc = "updateStatus"
  /\ \A o \in RaceRuns \ {r} : run[o].pc = "returned"

C32_TerminalJobUntouched ==
  [][\A r \in RaceRuns :
       InvokedOnTerminalJob(r) /\ run'[r] # run[r] =>
         /\ jobs'[RaceJob].Status = jobs[RaceJob].Status
         /\ jobs'[RaceJob].Steps = jobs[RaceJob].Steps
         /\ jobs'[RaceJob].ErrorMessage = jobs[RaceJob].ErrorMessage
         /\ petitions' = petitions]_vars

(* C33: whatever the petition's selected criteria are when ProcessDraft     *)
(* loads them, a job is not completed while one of its steps is pending,    *)
(* and every step-status update is for a step name in the job's list.       *)
C33_DrivesRecordedSteps ==
  /\ jobs[RaceJob].Status = JobStatusCompleted =>
       \A n \in DOMAIN jobs[RaceJob].Steps : jobs[RaceJob].Steps[n].Status # "pending"
  /\ run[1].pc \in {"stepRead", "stepWrite"} =>
       StepsNamed(jobs[RaceJob], run[1].stepName) # {}

(* C34: when a selected criterion has no entry in the criteria details, the *)
(* run makes no embedding or completion call for it and goes to mark the    *)
(* job failed with a message that names the criterion; the job ends failed  *)
(* with that message, and the petition's content stays as it was, whatever  *)
(* sections the run had generated.                                          *)
MissingDetailsAt(r) ==
  /\ r.i \in 1..Len(r.petition.SelectedCriteria)
  /\ r.petition.SelectedCriteria[r.i] \notin r.petition.CriteriaDetails

MissingMessage(r) == "missing details for criterion: " \o r.petition.SelectedCriteria[r.i]

C34_MissingDetailsFailJob ==
  /\ [](\A j \in JobIDs :
          run[j].failedAt = "generate" /\ MissingDetailsAt(run[j]) =>
            /\ run[j].failMsg = MissingMessage(run[j])
            /\ Len(run[j].sections) = run[j].i - 1
            /\ Content(j) = run[j].contentAtStart /\ ~run[j].wrote
            /\ run[j].pc = "returned" =>
                 /\ run[j].err
                 /\ ~run[j].failDropped =>
                      /\ jobs[j].Status = JobStatusFailed
                      /\ jobs[j].ErrorMessage = MissingMessage(run[j]))
  /\ [][\A j \in JobIDs :
          run[j].pc = "generate" /\ MissingDetailsAt(run[j]) /\ run'[j].pc # "generate" =>
            /\ run'[j].pc = "markFailed"
            /\ sent' = NoCalls
            /\ UNCHANGED << petitions, jobs >>]_vars

C34_Witness ==
  \E j \in JobIDs :
    /\ run[j].pc = "returned" /\ run[j].failedAt = "generate" /\ MissingDetailsAt(run[j])
    /\ run[j].i = 2 /\ Len(run[j].sections) = 1
    /\ jobs[j].Status = JobStatusFailed
    /\ Content(j) = PriorContent

(* C35: with one ProcessDraft run per job, a job has an error message       *)
(* exactly when its status is failed and a completion time exactly when     *)
(* its status is completed.                                                 *)
C35_MessageAndTimestampMatchStatus ==
  \A j \in JobIDs :
    /\ jobs[j].ErrorMessage # Nil <=> jobs[j].Status = JobStatusFailed
    /\ jobs[j].CompletedAt # Nil <=> jobs[j].Status = JobStatusCompleted
    /\ jobs[j].ErrorMessage # ""

C35_Witness ==
  \E j \in JobIDs :
    /\ jobs[j].Status = JobStatusCompleted
    /\ jobs[j].CompletedAt # Nil /\ jobs[j].ErrorMessage = Nil
    /\ Len(Selected(j)) = MaxCriteria

(* C36: every ProcessDraft run returns, whatever the services answer; for  *)
(* n selected criteria it makes at most 3 * (n + 1) completion calls and   *)
(* at most 3 * (n + 1) embedding calls, and after its return, failed job   *)
(* or not, the pipeline takes no further step for the job.                 *)
C36_RunTerminatesWithinCallBudget ==
  /\ <>(probe.fn = "ProcessDraft" /\ probe.pc = "returned")
  /\ [](/\ probe.genCalls <= maxRetries * (Len(probe.criteria) + 1)
        /\ probe.embedCalls <= maxRetries * (Len(probe.criteria) + 1))
  /\ [][probe.pc # "returned"]_vars

C36_Witness ==
  /\ probe.fn = "ProcessDraft" /\ probe.pc = "returned"
  /\ probe.status = JobStatusFailed
  /\ Len(probe.criteria) = 2
  /\ probe.genCalls = maxRetries * 3
  /\ probe.embedCalls = maxRetries * 3

====
